---------------------------- MODULE Spec2Model ----------------------------
(***************************************************************************)
(* Model of the EPUB/MOBI reader: the PalmDOC decompressor, the chapter    *)
(* extraction of both parsers and the bionic-reading controller.           *)
(*                                                                         *)
(* Conventions.  JavaScript arrays and strings are 0-based; sequences here *)
(* are 1-based, so js index k is element k+1.  Intensities are exact       *)
(* rationals in tenths (5 stands for 0.5).  A character is a string; an    *)
(* accented letter is written in ASCII, the letter followed by ' (acute),  *)
(* _ (grave), : (diaeresis) or ~ (tilde), and the titles 'Capitulo N' are  *)
(* written without their accent.                                           *)
(***************************************************************************)
EXTENDS Integers, Sequences, FiniteSets, TLC

VARIABLES
    \* AnalizadorMobi._descomprimirPalmDoc, one call at a time
    datos,          \* the record being decompressed (bytes)
    cursor,         \* i: 0-based read position in datos
    resultado,      \* the output array of the running call
    pcPalm,         \* "inactivo" | "bucle" | "hecho"
    ultimoPaso,     \* what the last loop iteration did (history)
    previo,         \* a remembered earlier call: its input and its output (history)
    \* the parsers
    entrada,        \* the file handed to analizar (history)
    libro,          \* what analizar returned
    \* ControladorLecturaBionica
    configuracion,  \* this.configuracion: modo, intensidad, color
    almacen,        \* localStorage['lectorEpub_bionica'], or Nada
    ultima,         \* the last call of aplicar / of a strategy (history)
    \* AnalizadorEpub path resolution, GestorArchivos, ExportadorEpub
    ruta,           \* the last resolution of an href (history)
    carga,          \* the running call of GestorArchivos.cargarArchivo
    exportado,      \* the archive ExportadorEpub.exportar wrote, or its error
    \* AplicacionLector and ControladorVisor
    visor,          \* this.controladorVisor with what its container shows, or Nada
    progreso,       \* localStorage['lectorEpub_progreso_<id>']: the saved chapter per id
    pantalla,       \* the loading screen, the error message and its pending timers
    cargas          \* the calls of _procesarArchivo: those in flight, those ended (history)

vars == <<datos, cursor, resultado, pcPalm, ultimoPaso, previo,
          entrada, libro, configuracion, almacen, ultima, ruta, carga, exportado,
          visor, progreso, pantalla, cargas>>

varsPalm == <<datos, cursor, resultado, pcPalm, ultimoPaso, previo>>
varsLibro == <<entrada, libro>>
varsBionica == <<configuracion, almacen, ultima>>
varsServicio == <<ruta, carga, exportado>>
varsVisor == <<visor, progreso>>
varsAplicacion == <<pantalla, cargas>>

Nada == [tipo |-> "nada"]

Min(a, b) == IF a <= b THEN a ELSE b
Max(a, b) == IF a >= b THEN a ELSE b

\* All sequences over S of length 0..n
SeqsHasta(S, n) == UNION {[1..k -> S] : k \in 0..n}

(***************************************************************************)
(* PalmDOC decompression                                                   *)
(***************************************************************************)

\* Longest record of the decompression runs
MaxDatos == 4
\* Longest record of the runs whose result is remembered and compared
MaxRecordado == 3

\* Bytes of the records: 0 and 2 (control 0, a literal run, a distance-0
\* reference as second byte), 'a' and 'b', 0x80 (reference lead), 8
\* (distance 1, length 3), 19 (distance 2, length 6), 0xC8 (space + 'H')
Bytes == {0, 2, 97, 98, 128, 8, 19, 200}
BytesRecordados == {97, 128, 8}

Registros == SeqsHasta(Bytes, MaxDatos)
RegistrosRecordados == SeqsHasta(BytesRecordados, MaxRecordado)

\* The mutant of XorOchenta below: the byte is emitted as it is
XorOchentaNulo(byte) == byte

\* byte ^ 128 for a byte of 192..255
XorOchenta(byte) == IF byte >= 128 THEN byte - 128 ELSE byte + 128

\* for (j = 0; j < byte && i < datos.length; j++) resultado.push(datos[i++])
RECURSIVE CopiarLiteral(_, _, _, _)
CopiarLiteral(d, i, res, n) ==
    IF n > 0 /\ i < Len(d)
    THEN CopiarLiteral(d, i + 1, Append(res, d[i + 1]), n - 1)
    ELSE [i |-> i, res |-> res]

\* The mutant of CopiarReferencia below: the run is sliced out of the output as it
\* was before the copy, so an overlapping run stops at the old end
CopiarReferenciaSinSolape(res, posicion, j, longitud) ==
    LET n0 == Len(res)
        validos == {k \in 0..(longitud - 1) : posicion + k >= 0 /\ posicion + k < n0}
    IN  res \o [k \in 1..Cardinality(validos) |-> res[Max(posicion, 0) + k]]

\* for (j = 0; j < longitud; j++)
\*     if (posicion + j >= 0 && posicion + j < resultado.length)
\*         resultado.push(resultado[posicion + j])
RECURSIVE CopiarReferencia(_, _, _, _)
CopiarReferencia(res, posicion, j, longitud) ==
    IF j >= longitud THEN res
    ELSE IF posicion + j >= 0 /\ posicion + j < Len(res)
         THEN CopiarReferencia(Append(res, res[posicion + j + 1]), posicion, j + 1, longitud)
         ELSE CopiarReferencia(res, posicion, j + 1, longitud)

\* The mutant of Distancia below: the distance is not masked
DistanciaSinMascara(byte, siguiente) == (byte * 256 + siguiente) \div 8

\* ((byte << 8) | siguiente) >> 3, masked with 0x7FF
Distancia(byte, siguiente) == ((byte * 256 + siguiente) \div 8) % 2048
\* (siguiente & 0x07) + 3
Longitud(siguiente) == (siguiente % 8) + 3

\* One iteration of the while loop, from read position i with output res
PasoPalm(d, i, res) ==
    LET byte == d[i + 1]
        i1 == i + 1
    IN  IF byte = 0 THEN
            [i |-> i1, res |-> Append(res, 0), paso |-> [tipo |-> "cero"]]
        ELSE IF byte >= 1 /\ byte <= 8 THEN
            LET c == CopiarLiteral(d, i1, res, byte)
            IN  [i |-> c.i, res |-> c.res, paso |-> [tipo |-> "literal", n |-> byte]]
        ELSE IF byte >= 9 /\ byte <= 127 THEN
            [i |-> i1, res |-> Append(res, byte), paso |-> [tipo |-> "propio"]]
        ELSE IF byte >= 128 /\ byte <= 191 THEN
            IF i1 < Len(d) THEN
                LET siguiente == d[i1 + 1]
                    distancia == Distancia(byte, siguiente)
                    longitud == Longitud(siguiente)
                    posicion == Len(res) - distancia
                IN  [i |-> i1 + 1,
                     res |-> CopiarReferencia(res, posicion, 0, longitud),
                     paso |-> [tipo |-> "referencia", distancia |-> distancia,
                               longitud |-> longitud, antes |-> res]]
            ELSE [i |-> i1, res |-> res, paso |-> [tipo |-> "truncado"]]
        ELSE
            [i |-> i1, res |-> Append(Append(res, 32), XorOchenta(byte)),
             paso |-> [tipo |-> "espacio"]]

\* The whole function: const resultado = []; let i = 0; while (i < datos.length) ...
RECURSIVE BuclePalm(_, _, _)
BuclePalm(d, i, res) ==
    IF i < Len(d)
    THEN LET p == PasoPalm(d, i, res) IN BuclePalm(d, p.i, p.res)
    ELSE res

descomprimirPalmDoc(d) == BuclePalm(d, 0, <<>>)

\* The mutant of EntrarPalm below: the output array outlives the call
EntrarPalmCompartido(d) ==
    /\ pcPalm \in {"inactivo", "hecho"}
    /\ datos' = d
    /\ cursor' = 0
    /\ resultado' = resultado
    /\ pcPalm' = "bucle"
    /\ ultimoPaso' = Nada
    /\ UNCHANGED <<previo, varsLibro, varsBionica, varsServicio, varsVisor, varsAplicacion>>

\* Entering _descomprimirPalmDoc(datos): fresh locals
EntrarPalm(d) ==
    /\ pcPalm \in {"inactivo", "hecho"}
    /\ datos' = d
    /\ cursor' = 0
    /\ resultado' = <<>>
    /\ pcPalm' = "bucle"
    /\ ultimoPaso' = Nada
    /\ UNCHANGED <<previo, varsLibro, varsBionica, varsServicio, varsVisor, varsAplicacion>>

\* One iteration of while (i < datos.length)
IterarPalm ==
    /\ pcPalm = "bucle"
    /\ cursor < Len(datos)
    /\ LET p == PasoPalm(datos, cursor, resultado)
       IN  /\ cursor' = p.i
           /\ resultado' = p.res
           /\ ultimoPaso' = p.paso
    /\ UNCHANGED <<datos, pcPalm, previo, varsLibro, varsBionica, varsServicio, varsVisor, varsAplicacion>>

\* return new Uint8Array(resultado)
SalirPalm ==
    /\ pcPalm = "bucle"
    /\ cursor >= Len(datos)
    /\ pcPalm' = "hecho"
    /\ UNCHANGED <<datos, cursor, resultado, ultimoPaso, previo, varsLibro, varsBionica, varsServicio,
                 varsVisor, varsAplicacion>>

\* The observer keeps the finished call's input and output, to compare a later
\* call on the same input with it
Recordar ==
    /\ pcPalm = "hecho"
    /\ previo' = [tipo |-> "llamada", datos |-> datos, salida |-> resultado]
    /\ UNCHANGED <<datos, cursor, resultado, pcPalm, ultimoPaso, varsLibro, varsBionica, varsServicio,
                 varsVisor, varsAplicacion>>

(***************************************************************************)
(* The book model and the chapter extraction of the two parsers           *)
(***************************************************************************)

\* Longest spine of an EPUB package
MaxSpine == 3
\* Most top-level body nodes of a MOBI text
MaxNodos == 3
\* Most entries of a MOBI record table
MaxRegistros == 4

\* new Capitulo({ id, titulo, contenidoHtml, orden })
Capitulo(id, titulo, contenidoHtml, orden) ==
    [id |-> id,
     titulo |-> IF titulo = "" THEN "Capitulo " \o ToString(orden) ELSE titulo,
     contenidoHtml |-> contenidoHtml,
     orden |-> orden]

\* new LibroAnalizado({ ..., capitulos, ... })
LibroAnalizado(formato, capitulos) ==
    [tipo |-> "libro", formato |-> formato, capitulos |-> capitulos]

\* throw new Error(`Error al analizar ...: ${error.message}`): the message is the
\* parser's prefix followed by the message of the failure caught
ErrorAnalisis(formato, mensaje) ==
    [tipo |-> "error", formato |-> formato,
     mensaje |-> <<IF formato = "epub" THEN "Error al analizar EPUB: "
                   ELSE "Error al analizar MOBI: ", mensaje>>]

\* What a step of analizar leaves: it completes, or it throws an error that has
\* a message
Hecho == [tipo |-> "ok"]
Excepcion(mensaje) == [tipo |-> "excepcion", mensaje |-> mensaje]

\* The steps inside try { ... } run in order; the first throw ends the block
PrimerFallo(pasos) ==
    IF \E k \in 1..Len(pasos) : pasos[k].tipo = "excepcion"
    THEN pasos[CHOOSE k \in 1..Len(pasos) :
                   /\ pasos[k].tipo = "excepcion"
                   /\ \A j \in 1..(k - 1) : pasos[j].tipo # "excepcion"]
    ELSE Hecho

\* ---- EPUB ----

\* Manifest item ids; the item x has href x.xhtml
IdsItem == {"c1", "c2"}
\* idrefs a spine may hold: the item ids and one that no manifest declares
IdRefs == IdsItem \cup {"x"}

\* What can be wrong before the chapters are read: the JSZip library is not
\* loaded, the bytes are no ZIP archive, the archive has no
\* META-INF/container.xml, the container names no rootfile, the package document
\* is not in the archive, the package has no spine, it has no manifest
Estructuras ==
    {"ok", "sinJSZip", "noZip", "sinContenedor", "sinRootfile", "sinOpf", "sinSpine",
     "sinManifest"}

\* An EPUB file: its structure, the ids its manifest declares, the manifest items
\* whose file is in the archive, and its spine (idrefs in reading order)
EntradasEpub ==
    {[tipo |-> "epub", estructura |-> "ok", manifest |-> m, archivos |-> a, spine |-> s] :
        m \in SUBSET IdsItem, a \in SUBSET IdsItem, s \in SeqsHasta(IdRefs, MaxSpine)}
    \cup
    {[tipo |-> "epub", estructura |-> e, manifest |-> {}, archivos |-> {}, spine |-> <<>>] :
        e \in Estructuras \ {"ok"}}

\* The text of the file of item x, after _procesarContenidoHtml
ContenidoItem(x) == <<"body", x>>

\* _extraerTituloCapitulo: the file of c1 has a heading, the others have none
extraerTituloCapitulo(x, numeroCapitulo) ==
    IF x = "c1" THEN "Uno" ELSE "Capitulo " \o ToString(numeroCapitulo)

\* for (let i = 0; i < itemrefs.length; i++) { ... }  (i is 0-based)
RECURSIVE BucleSpine(_, _, _)
BucleSpine(e, i, capitulos) ==
    IF i >= Len(e.spine) THEN capitulos
    ELSE LET idref == e.spine[i + 1]
         IN  IF idref \in e.manifest /\ idref \in e.archivos
             THEN BucleSpine(e, i + 1,
                     Append(capitulos,
                            Capitulo(idref, extraerTituloCapitulo(idref, i + 1),
                                     ContenidoItem(idref), i)))
             ELSE BucleSpine(e, i + 1, capitulos)

extraerCapitulos(e) == BucleSpine(e, 0, <<>>)

\* _descomprimirEpub(datosArchivo); JSZip.loadAsync rejects with its own message
descomprimirEpub(e) ==
    IF e.estructura = "sinJSZip"
        THEN Excepcion("JSZip no esta disponible. Asegurese de incluir la libreria.")
    ELSE IF e.estructura = "noZip"
        THEN Excepcion("Can't find end of central directory : is this a zip file ?")
    ELSE Hecho

\* The mutant of leerContenedor below: a missing container.xml is let through
leerContenedorTolerante(e) == Hecho

\* _leerContenedor(zip)
leerContenedor(e) ==
    IF e.estructura = "sinContenedor"
    THEN Excepcion("Archivo container.xml no encontrado")
    ELSE Hecho

\* _extraerRutaOpf(contenedor)
extraerRutaOpf(e) ==
    IF e.estructura = "sinRootfile"
    THEN Excepcion("No se encontro el rootfile en container.xml")
    ELSE Hecho

\* _leerOpf(zip, rutaOpf)
leerOpf(e) ==
    IF e.estructura = "sinOpf"
    THEN Excepcion("Archivo OPF no encontrado: OEBPS/content.opf")
    ELSE Hecho

\* if (!spine || !manifest) throw ..., at the head of _extraerCapitulos
comprobarOpf(e) ==
    IF e.estructura \in {"sinSpine", "sinManifest"}
    THEN Excepcion("Estructura OPF invalida")
    ELSE Hecho

\* The steps of AnalizadorEpub.analizar that can throw, in the order they run
PasosEpub(e) ==
    <<descomprimirEpub(e), leerContenedor(e), extraerRutaOpf(e), leerOpf(e),
      comprobarOpf(e)>>

\* The mutant of analizarEpub below: no catch, the failure leaves analizar as it
\* was thrown
analizarEpubSinCaptura(e) ==
    LET fallo == PrimerFallo(PasosEpub(e))
    IN  IF fallo.tipo = "excepcion" THEN fallo
        ELSE LibroAnalizado("epub", extraerCapitulos(e))

\* AnalizadorEpub.analizar: what it returns, or the error it throws
analizarEpub(e) ==
    LET fallo == PrimerFallo(PasosEpub(e))
    IN  IF fallo.tipo = "excepcion" THEN ErrorAnalisis("epub", fallo.mensaje)
        ELSE LibroAnalizado("epub", extraerCapitulos(e))

\* ---- EPUB: paths ----

\* Most segments of an href
MaxRuta == 3

\* A path is the sequence of its '/'-separated segments (what split('/') gives):
\* 'OEBPS/text/' is <<"OEBPS", "text", "">> and '' is <<"">>.
\* The directory of the package document: rutaOpf up to its last '/', or ''
Directorios == {<<"">>, <<"OEBPS", "">>, <<"OEBPS", "text", "">>}

\* hrefs of manifest items and src of images
Hrefs == SeqsHasta({"..", ".", "images", "cover.jpg"}, MaxRuta) \ {<<>>}

\* directorio + href on strings: the last segment of the one and the first of the
\* other become one segment
Concatenar(a, b) ==
    SubSeq(a, 1, Len(a) - 1) \o <<a[Len(a)] \o b[1]>> \o Tail(b)

\* for (const parte of partesRelativas) { ... }
RECURSIVE BucleRuta(_, _, _)
BucleRuta(partes, partesRelativas, k) ==
    IF k > Len(partesRelativas) THEN partes
    ELSE LET parte == partesRelativas[k]
         IN  IF parte = ".."
             THEN BucleRuta(IF partes = <<>> THEN partes
                            ELSE SubSeq(partes, 1, Len(partes) - 1),
                            partesRelativas, k + 1)
             ELSE IF parte # "."
                  THEN BucleRuta(Append(partes, parte), partesRelativas, k + 1)
                  ELSE BucleRuta(partes, partesRelativas, k + 1)

\* _resolverRuta(directorio, rutaRelativa)
resolverRuta(directorio, rutaRelativa) ==
    IF Len(rutaRelativa) >= 2 /\ rutaRelativa[1] = ".."
    THEN BucleRuta(SelectSeq(directorio, LAMBDA p : p # ""), rutaRelativa, 1)
    ELSE Concatenar(directorio, rutaRelativa)

\* const rutaCompleta = directorio + href, in _extraerCapitulos
rutaCapitulo(directorio, href) == Concatenar(directorio, href)

\* _extraerCapitulos resolves the href of a spine item
ResolverCapitulo(directorio, href) ==
    /\ ruta' = [tipo |-> "resuelta", uso |-> "spine", directorio |-> directorio,
                href |-> href, salida |-> rutaCapitulo(directorio, href)]
    /\ UNCHANGED <<carga, exportado, varsPalm, varsLibro, varsBionica, varsVisor, varsAplicacion>>

\* _procesarContenidoHtml resolves the src of an image
ResolverImagen(directorio, src) ==
    /\ ruta' = [tipo |-> "resuelta", uso |-> "imagen", directorio |-> directorio,
                href |-> src, salida |-> resolverRuta(directorio, src)]
    /\ UNCHANGED <<carga, exportado, varsPalm, varsLibro, varsBionica, varsVisor, varsAplicacion>>

\* ---- MOBI ----

\* Top-level nodes of the parsed body: text (blank or not), an element that is no
\* delimiter (with or without a marker nested inside it), a delimiter (h1, h2,
\* mbp:pagebreak, class *chapter*) with its trimmed text content, a comment
\* (nodeType 8)
NodoTexto ==
    [clase |-> "texto", blanco |-> FALSE, delimitador |-> FALSE, anidado |-> FALSE, texto |-> "t"]

NodosMobi ==
    {[clase |-> "texto", blanco |-> TRUE, delimitador |-> FALSE, anidado |-> FALSE, texto |-> ""],
     NodoTexto,
     [clase |-> "elemento", blanco |-> FALSE, delimitador |-> FALSE, anidado |-> FALSE, texto |-> "p"],
     [clase |-> "elemento", blanco |-> FALSE, delimitador |-> FALSE, anidado |-> TRUE, texto |-> "d"],
     [clase |-> "elemento", blanco |-> FALSE, delimitador |-> TRUE, anidado |-> FALSE, texto |-> "Uno"],
     [clase |-> "elemento", blanco |-> FALSE, delimitador |-> TRUE, anidado |-> FALSE, texto |-> ""],
     [clase |-> "comentario", blanco |-> FALSE, delimitador |-> FALSE, anidado |-> FALSE, texto |-> "c"]}

\* Byte lengths of a file: shorter than the 32-byte name, one byte short of the
\* record count at 76..77, long enough for the bytes read of one table entry but
\* not for the whole entry, and long enough for a table, a header and text
Longitudes == {20, 77, 83, 140}
\* Offsets a table entry may hold
Desplazamientos == {0, 94, 120, 150}

\* const inicioLista = 78; each entry takes 8 bytes
FinTabla(numRegistros) == 78 + (numRegistros * 8)

\* The most EXTH records of a file
MaxExth == 2

\* The EXTH block of a file: where it lies (offsetRegistro0 + 16 +
\* longitudCabecera), the 4 bytes of its tag, and the records the walk from
\* offset + 12 meets, as many as the count at offset + 8 says: the type, the
\* length field, and the text of the value once NULs are dropped and it is trimmed
BloqueExth(offset, identificador, registros) ==
    [offset |-> offset, identificador |-> identificador, registros |-> registros]

\* A file whose bytes after the header are no EXTH block
SinExth == BloqueExth(0, "otro", <<>>)

\* A length field of 11 is a value of 3 bytes, one of 4 is below the 8 bytes of
\* the record's own header, one of 200 runs past the end of the files here
RegistrosExth ==
    {[tipo |-> t, longitud |-> n, valor |-> IF t = 524 THEN "fr" ELSE "Ana"] :
        t \in {100, 524, 1}, n \in {4, 11, 200}}

\* A block inside the file, a block whose count lies past the end, a block
\* that starts past the end
BloquesExth ==
    {BloqueExth(190, "EXTH", r) : r \in SeqsHasta(RegistrosExth, MaxExth)}
    \cup {BloqueExth(190, "otro", <<>>), BloqueExth(296, "EXTH", <<>>),
          BloqueExth(400, "EXTH", <<>>)}

\* A MOBI file: its byte length, the record count at 76, the offsets of the table
\* entries, the fields of the header at record 0 (compression, number of text
\* records, the identifier at +16, where the title lies), and the nodes the text
\* of its records parses to
ArchivoMobi(longitud, offsets, compresion, numRegistrosTexto, identificador, titulo, nodos) ==
    [tipo |-> "mobi", longitud |-> longitud, numRegistros |-> Len(offsets),
     offsets |-> offsets, compresion |-> compresion,
     numRegistrosTexto |-> numRegistrosTexto, identificador |-> identificador,
     titulo |-> titulo, nodos |-> nodos, exth |-> SinExth]

\* The header fields are bytes of their own when record 0 starts in the name
\* (offset 0, no MOBI identifier: its fields at +84 would lie in the table) or
\* after the table; a header that starts past the file has no bytes at all
CabeceraLibre(longitud, offsets, identificador) ==
    \/ offsets = <<>>
    \/ offsets[1] = 0 /\ identificador # "MOBI"
    \/ offsets[1] >= FinTabla(Len(offsets))
    \/ offsets[1] >= longitud

\* The identifier with where the title lies: no title, inside the file, past its end
Identificaciones ==
    {<<"otro", "">>, <<"MOBI", "">>, <<"MOBI", "dentro">>, <<"MOBI", "fuera">>}

EntradasMobi ==
    {ArchivoMobi(140, <<94, 120>>, 2, 1, "otro", "", n) : n \in SeqsHasta(NodosMobi, MaxNodos)}
    \cup
    {ArchivoMobi(d[1], d[2], c, t, d[3][1], d[3][2], <<NodoTexto>>) :
        d \in {x \in Longitudes \X SeqsHasta(Desplazamientos, MaxRegistros)
                       \X Identificaciones :
                  /\ CabeceraLibre(x[1], x[2], x[3][1])
                  /\ (x[1] < 78 => x[2] = <<>>)},
        c \in {1, 2}, t \in 0..2}
    \cup
    {[ArchivoMobi(300, <<94, 250>>, 1, 1, "MOBI", "dentro", <<NodoTexto>>)
         EXCEPT !.exth = x] : x \in BloquesExth}

\* vista.getUintN(offset) and new Uint8Array(vista.buffer, offset, longitud) throw
\* a RangeError when the bytes asked for do not lie in the buffer; its message is
\* the engine's
FueraDeRango(desde, bytes, longitud) == bytes < 0 \/ desde + bytes > longitud

\* _leerCabeceraPdb(vista): the name at 0..31, the record count at 76..77
leerCabeceraPdb(e) ==
    IF FueraDeRango(0, 32, e.longitud) \/ FueraDeRango(76, 2, e.longitud)
    THEN Excepcion("RangeError") ELSE Hecho

\* _leerRegistros(vista, cabecera): of entry i it reads the offset at 78 + 8i
\* (4 bytes) and the attributes at 78 + 8i + 4 (1 byte)
leerRegistros(e) ==
    IF \E i \in 0..(e.numRegistros - 1) :
           \/ FueraDeRango(78 + (i * 8), 4, e.longitud)
           \/ FueraDeRango(78 + (i * 8) + 4, 1, e.longitud)
    THEN Excepcion("RangeError") ELSE Hecho

\* registros[0].offset, in analizar: registros[0] is undefined for an empty table
registroCero(e) ==
    IF e.numRegistros = 0 THEN Excepcion("TypeError") ELSE Hecho

\* _leerCabeceraMobi(vista, offsetRegistro0): the fields at +0, +4, +8 and +10, the
\* identifier at +16..+19; for 'MOBI' the fields at +20, +84 and +88 and the
\* title. _leerExth catches what it throws
leerCabeceraMobi(e) ==
    IF e.numRegistros = 0 THEN Hecho
    ELSE LET o == e.offsets[1]
         IN  IF \/ FueraDeRango(o, 2, e.longitud) \/ FueraDeRango(o + 4, 4, e.longitud)
                \/ FueraDeRango(o + 8, 2, e.longitud) \/ FueraDeRango(o + 10, 2, e.longitud)
                \/ FueraDeRango(o + 16, 4, e.longitud)
             THEN Excepcion("RangeError")
             ELSE IF e.identificador # "MOBI" THEN Hecho
             ELSE IF \/ FueraDeRango(o + 20, 4, e.longitud)
                     \/ FueraDeRango(o + 84, 4, e.longitud)
                     \/ FueraDeRango(o + 88, 4, e.longitud)
                     \/ e.titulo = "fuera"
             THEN Excepcion("RangeError")
             ELSE Hecho

\* for (let i = 0; i < numRegistros; i++) { ... } of _leerExth: res holds
\* resultado, and whether the loop was left by something thrown
RECURSIVE BucleExth(_, _, _, _)
BucleExth(e, i, posActual, res) ==
    IF i > Len(e.exth.registros) THEN res
    ELSE LET r == e.exth.registros[i]
         IN  IF \/ FueraDeRango(posActual, 4, e.longitud)
                \/ FueraDeRango(posActual + 4, 4, e.longitud)
                \/ FueraDeRango(posActual + 8, r.longitud - 8, e.longitud)
             THEN [res EXCEPT !.lanzado = TRUE]
             ELSE BucleExth(e, i + 1, posActual + r.longitud,
                      [res EXCEPT !.autor = IF r.tipo = 100 THEN r.valor ELSE @,
                                  !.idioma = IF r.tipo = 524 THEN r.valor ELSE @])

\* _leerExth(vista, offset): resultado, with whether the catch was entered
leerExth(e) ==
    IF FueraDeRango(e.exth.offset, 4, e.longitud)
    THEN [autor |-> "", idioma |-> "", lanzado |-> TRUE]
    ELSE IF e.exth.identificador # "EXTH"
    THEN [autor |-> "", idioma |-> "", lanzado |-> FALSE]
    ELSE IF FueraDeRango(e.exth.offset + 8, 4, e.longitud)
    THEN [autor |-> "", idioma |-> "", lanzado |-> TRUE]
    ELSE BucleExth(e, 1, e.exth.offset + 12,
                   [autor |-> "", idioma |-> "", lanzado |-> FALSE])

\* What _leerCabeceraMobi returns of autor and idioma
cabeceraMobi(e) ==
    IF e.identificador # "MOBI" THEN [autor |-> "", idioma |-> "es"]
    ELSE LET exthInfo == leerExth(e)
         IN  [autor |-> IF exthInfo.autor # "" THEN exthInfo.autor ELSE "",
              idioma |-> IF exthInfo.idioma # "" THEN exthInfo.idioma ELSE "es"]

\* autor and metadatos.idioma of the book analizar returns
metadatosMobi(e) ==
    [autor |-> IF cabeceraMobi(e).autor # "" THEN cabeceraMobi(e).autor
               ELSE "Autor desconocido",
     idioma |-> IF cabeceraMobi(e).idioma # "" THEN cabeceraMobi(e).idioma ELSE "es"]

\* Math.min(cabecera.numRegistrosTexto, registros.length - 1)
numRegistrosLeidos(e) == Min(e.numRegistrosTexto, e.numRegistros - 1)

\* The bounds of text record i (i is 1..numRegistros, 0-based in the table)
inicioRegistro(e, i) == e.offsets[i + 1]
finRegistro(e, i) == IF i < e.numRegistros - 1 THEN e.offsets[i + 2] ELSE e.longitud

\* _extraerContenido(vista, registros, cabecera): new Uint8Array(vista.buffer,
\* inicio, fin - inicio) for each text record
extraerContenido(e) ==
    IF \E i \in 1..numRegistrosLeidos(e) :
           FueraDeRango(inicioRegistro(e, i), finRegistro(e, i) - inicioRegistro(e, i),
                        e.longitud)
    THEN Excepcion("RangeError") ELSE Hecho

\* The text the records read decode to, as its top-level nodes: nothing when no
\* byte is read
contenidoMobi(e) ==
    IF \A i \in 1..numRegistrosLeidos(e) : finRegistro(e, i) = inicioRegistro(e, i)
    THEN <<>> ELSE e.nodos

\* The steps of AnalizadorMobi.analizar that can throw, in the order they run
PasosMobi(e) ==
    <<leerCabeceraPdb(e), leerRegistros(e), registroCero(e), leerCabeceraMobi(e),
      extraerContenido(e)>>

\* contenidoActual.trim() is non-empty
NoBlanco(contenido) == \E k \in 1..Len(contenido) : ~contenido[k].blanco

\* body.querySelectorAll('h1, h2, mbp\\:pagebreak, [class*="chapter"]').length
NumMarcadores(nodos) ==
    Cardinality({k \in 1..Len(nodos) : nodos[k].delimitador \/ nodos[k].anidado})

\* for (const nodo of nodos) { ... }: st holds capitulos, contenidoActual,
\* tituloActual and orden
RECURSIVE BucleNodos(_, _, _)
BucleNodos(nodos, k, st) ==
    IF k > Len(nodos) THEN st
    ELSE LET nodo == nodos[k]
             esDelimitador == nodo.clase = "elemento" /\ nodo.delimitador
             vaciar == esDelimitador /\ NoBlanco(st.contenidoActual)
             caps == IF vaciar
                     THEN Append(st.capitulos,
                                 Capitulo("cap-" \o ToString(st.orden), st.tituloActual,
                                          st.contenidoActual, st.orden))
                     ELSE st.capitulos
             ord == IF vaciar THEN st.orden + 1 ELSE st.orden
             cont == IF esDelimitador THEN <<>> ELSE st.contenidoActual
             tit == IF esDelimitador
                    THEN (IF nodo.texto # "" THEN nodo.texto
                          ELSE "Capitulo " \o ToString(ord + 1))
                    ELSE st.tituloActual
             \* nodeType 1 adds outerHTML, nodeType 3 adds textContent, others nothing
             anadido == IF nodo.clase \in {"elemento", "texto"}
                        THEN Append(cont, nodo) ELSE cont
         IN  BucleNodos(nodos, k + 1,
                 [capitulos |-> caps, contenidoActual |-> anadido,
                  tituloActual |-> tit, orden |-> ord])

\* AnalizadorMobi._dividirEnCapitulos(html), html given as its top-level nodes
dividirEnCapitulos(nodos) ==
    IF NumMarcadores(nodos) = 0
    THEN <<Capitulo("cap-1", "Contenido", nodos, 0)>>
    ELSE LET st == BucleNodos(nodos, 1,
                       [capitulos |-> <<>>, contenidoActual |-> <<>>,
                        tituloActual |-> "Inicio", orden |-> 0])
             caps == IF NoBlanco(st.contenidoActual)
                     THEN Append(st.capitulos,
                                 Capitulo("cap-" \o ToString(st.orden), st.tituloActual,
                                          st.contenidoActual, st.orden))
                     ELSE st.capitulos
         IN  IF Len(caps) > 0 THEN caps
             ELSE <<Capitulo("cap-1", "Contenido", nodos, 0)>>

\* AnalizadorMobi.analizar: what it returns, or the error it throws
analizarMobi(e) ==
    LET fallo == PrimerFallo(PasosMobi(e))
    IN  IF fallo.tipo = "excepcion" THEN ErrorAnalisis("mobi", fallo.mensaje)
        ELSE LibroAnalizado("mobi", dividirEnCapitulos(contenidoMobi(e))) @@ metadatosMobi(e)

\* await analizador.analizar(datosArchivo) on an EPUB file
AnalizarEpub(e) ==
    /\ entrada' = e
    /\ libro' = analizarEpub(e)
    /\ UNCHANGED <<varsPalm, varsBionica, varsServicio, varsVisor, varsAplicacion>>

\* await analizador.analizar(datosArchivo) on a MOBI file
AnalizarMobi(e) ==
    /\ entrada' = e
    /\ libro' = analizarMobi(e)
    /\ UNCHANGED <<varsPalm, varsBionica, varsServicio, varsVisor, varsAplicacion>>

(***************************************************************************)
(* GestorArchivos                                                          *)
(***************************************************************************)

\* A file name is the sequence of its characters.
\* this.FORMATOS_SOPORTADOS of AnalizadorEpub and of AnalizadorMobi
FORMATOS_SOPORTADOS ==
    [epub |-> <<<<".", "e", "p", "u", "b">>>>,
     mobi |-> <<<<".", "m", "o", "b", "i">>, <<".", "a", "z", "w">>,
                <<".", "a", "z", "w", "3">>>>]

\* this.analizadores after _registrarAnalizadoresPorDefecto, in order
analizadores == <<"epub", "mobi">>

\* toLowerCase on one character
minuscula(c) ==
    CASE c = "E" -> "e" [] c = "P" -> "p" [] c = "U" -> "u" [] c = "B" -> "b"
      [] c = "M" -> "m" [] c = "O" -> "o" [] c = "I" -> "i" [] c = "A" -> "a"
      [] OTHER -> c

toLowerCase(nombre) == [k \in 1..Len(nombre) |-> minuscula(nombre[k])]

\* nombre.lastIndexOf('.'), 0-based, -1 when there is none
lastIndexOf(nombre) ==
    LET puntos == {k \in 1..Len(nombre) : nombre[k] = "."}
    IN  IF puntos = {} THEN -1
        ELSE (CHOOSE k \in puntos : \A j \in puntos : j <= k) - 1

\* cadena.slice(desde): a negative start counts from the end
slice(cadena, desde) ==
    LET inicio == IF desde < 0 THEN Max(Len(cadena) + desde, 0) ELSE Min(desde, Len(cadena))
    IN  SubSeq(cadena, inicio + 1, Len(cadena))

\* Is s one of the elements of the array formatos
incluye(formatos, s) == \E k \in 1..Len(formatos) : formatos[k] = s

\* The mutant of puedeAnalizar below: a format anywhere in the name is enough
puedeAnalizarEnCualquierParte(formatos, nombreArchivo) ==
    \E d \in 0..Len(nombreArchivo), h \in 0..Len(nombreArchivo) :
        incluye(formatos, SubSeq(toLowerCase(nombreArchivo), d + 1, h))

\* puedeAnalizar(nombreArchivo), the same in both parsers
puedeAnalizar(formatos, nombreArchivo) ==
    LET extension == slice(toLowerCase(nombreArchivo), lastIndexOf(nombreArchivo))
    IN  incluye(formatos, extension)

\* _buscarAnalizador(nombreArchivo): the first parser that takes the name, or Nada
buscarAnalizador(nombreArchivo) ==
    LET aptos == {k \in 1..Len(analizadores) :
                     puedeAnalizar(FORMATOS_SOPORTADOS[analizadores[k]], nombreArchivo)}
    IN  IF aptos = {} THEN Nada
        ELSE [tipo |-> "analizador",
              formato |-> analizadores[CHOOSE k \in aptos : \A j \in aptos : k <= j]]

\* obtenerFormatosSoportados() of the manager
obtenerFormatosSoportados ==
    FORMATOS_SOPORTADOS[analizadores[1]] \o FORMATOS_SOPORTADOS[analizadores[2]]

\* Names of the files the user picks
Nombres ==
    {<<"a", ".", "e", "p", "u", "b">>,
     <<"a", ".", "E", "P", "U", "B">>,
     <<"a", ".", "M", "o", "b", "i">>,
     <<"a", ".", "a", "z", "w">>,
     <<"a", ".", "a", "z", "w", "3">>,
     <<".", "e", "p", "u", "b">>,
     <<"a", ".", "t", "x", "t", ".", "e", "p", "u", "b">>,
     <<"a", ".", "e", "p", "u", "b", ".", "t", "x", "t">>,
     <<"a", ".", "e", "p", "u", "b", "x">>,
     <<"a", ".", "p", "d", "f">>,
     <<"e", "p", "u", "b">>,
     <<"a", ".">>,
     <<"b">>,
     <<>>}

\* What the bytes of a file are when read as a ZIP archive, and as a PDB container
VistasZip ==
    {[tipo |-> "epub", estructura |-> "ok", manifest |-> {"c1"}, archivos |-> {"c1"},
      spine |-> <<"c1">>],
     [tipo |-> "epub", estructura |-> "sinContenedor", manifest |-> {}, archivos |-> {},
      spine |-> <<>>],
     [tipo |-> "epub", estructura |-> "noZip", manifest |-> {}, archivos |-> {},
      spine |-> <<>>]}

VistasPdb ==
    {ArchivoMobi(140, <<94, 120>>, 2, 1, "otro", "", <<NodoTexto>>),
     ArchivoMobi(20, <<>>, 1, 0, "otro", "", <<NodoTexto>>)}

\* The File objects handed to cargarArchivo; the reader may fail on any of them
Archivos == [name : Nombres, zip : VistasZip, pdb : VistasPdb, legible : BOOLEAN]

\* analizador.analizar(datosArchivo) of the parser found
analizar(formato, archivo) ==
    IF formato = "epub" THEN analizarEpub(archivo.zip) ELSE analizarMobi(archivo.pdb)

\* cargarArchivo(archivo) up to its first await: the parser is looked up; without
\* one the call throws, with one _leerArchivo starts the FileReader
CargarArchivo(archivo) ==
    /\ IF carga.tipo = "nada" THEN TRUE
       ELSE carga.fase \in {"rechazado", "fallido", "hecho"}
    /\ LET analizador == buscarAnalizador(archivo.name)
       IN  carga' =
               IF analizador = Nada
               THEN [tipo |-> "carga", fase |-> "rechazado", archivo |-> archivo,
                     analizador |-> Nada, lecturas |-> 0, analisis |-> 0,
                     resultado |->
                         [tipo |-> "error",
                          mensaje |-> <<"Formato no soportado: ", archivo.name,
                                        ". Formatos validos: ",
                                        obtenerFormatosSoportados>>]]
               ELSE [tipo |-> "carga", fase |-> "leyendo", archivo |-> archivo,
                     analizador |-> analizador, lecturas |-> 1, analisis |-> 0,
                     resultado |-> Nada]
    /\ UNCHANGED <<ruta, exportado, varsPalm, varsLibro, varsBionica, varsVisor, varsAplicacion>>

\* lector.onload or lector.onerror: the bytes arrive and analizar is called, or
\* the promise of _leerArchivo is rejected
ArchivoLeido ==
    /\ carga.tipo = "carga" /\ carga.fase = "leyendo"
    /\ carga' =
           IF carga.archivo.legible
           THEN [carga EXCEPT !.fase = "analizando", !.analisis = 1]
           ELSE [carga EXCEPT !.fase = "fallido",
                              !.resultado = [tipo |-> "error",
                                             mensaje |-> <<"Error al leer el archivo">>]]
    /\ UNCHANGED <<ruta, exportado, varsPalm, varsLibro, varsBionica, varsVisor, varsAplicacion>>

\* analizar settles: cargarArchivo returns the Book or throws the parser's error
AnalisisTerminado ==
    /\ carga.tipo = "carga" /\ carga.fase = "analizando"
    /\ carga' = [carga EXCEPT !.fase = "hecho",
                              !.resultado = analizar(carga.analizador.formato, carga.archivo)]
    /\ UNCHANGED <<ruta, exportado, varsPalm, varsLibro, varsBionica, varsVisor, varsAplicacion>>

(***************************************************************************)
(* ControladorLecturaBionica                                              *)
(***************************************************************************)

\* Longest enumerated word handed to a strategy
MaxPalabra == 4

\* this.MODOS
MODOS ==
    [DESACTIVADO |-> "desactivado", INICIO |-> "inicio", INICIO_MEDIO |-> "inicio_medio",
     CONSONANTES |-> "consonantes", SILABAS |-> "silabas", VOCAL |-> "vocales"]

ValoresModo == {MODOS[k] : k \in DOMAIN MODOS}

\* A mode value that is none of this.MODOS
ModoDesconocido == "rapido"

\* Intensities in tenths: the presets 0.3, 0.5, 0.7, the ends 0 and 1, and the
\* out-of-range -0.5 and 1.5
Intensidades == {-5, 0, 3, 5, 7, 10, 15}

\* 'inherit' and one of this.COLORES_PREDEFINIDOS
Colores == {"inherit", "#e74c3c"}

\* this.configuracion as the constructor sets it
ConfiguracionPorDefecto ==
    [modo |-> MODOS.DESACTIVADO, intensidad |-> 5, color |-> "inherit"]

\* The character class [a-z, a' e' i' o' u' u: n~, A-Z, A' E' I' O' U' U: N~] of the
\* strategies
LetrasClase ==
    {"a", "b", "c", "d", "e", "f", "g", "h", "i", "j", "k", "l", "m", "n", "o", "p", "q",
     "r", "s", "t", "u", "v", "w", "x", "y", "z",
     "A", "B", "C", "D", "E", "F", "G", "H", "I", "J", "K", "L", "M", "N", "O", "P", "Q",
     "R", "S", "T", "U", "V", "W", "X", "Y", "Z",
     "a'", "e'", "i'", "o'", "u'", "u:", "n~", "A'", "E'", "I'", "O'", "U'", "U:", "N~"}

\* this.VOCALES: the vowels plain, acute, grave and with diaeresis, in both cases
VOCALES ==
    {"a", "e", "i", "o", "u", "a'", "e'", "i'", "o'", "u'", "a_", "e_", "i_", "o_", "u_",
     "a:", "e:", "i:", "o:", "u:",
     "A", "E", "I", "O", "U", "A'", "E'", "I'", "O'", "U'", "A_", "E_", "I_", "O_", "U_",
     "A:", "E:", "I:", "O:", "U:"}

\* the test of char against the letter class
esLetra(c) == c \in LetrasClase

\* /^\s+$/ on one character: the space and the no-break space (written "nbsp")
esEspacio(c) == c \in {" ", "nbsp"}

\* Math.ceil(n * intensidad), the intensity in tenths
Techo(n, intensidad) == -((-(n * intensidad)) \div 10)

\* A DOM node: a text node with its characters, or an element with its children.
\* tag is the element's tagName: in upper case for an HTML element, as written
\* (lower case) for an element of foreign content, which <svg> opens and in which
\* the parser leaves script, style and textarea
Texto(cs) ==
    [clase |-> "texto", tag |-> "", css |-> "", estilo |-> "", cs |-> cs, hijos |-> <<>>]
Elemento(tag, css, estilo, hijos) ==
    [clase |-> "elemento", tag |-> tag, css |-> css, estilo |-> estilo, cs |-> <<>>,
     hijos |-> hijos]

\* this.estaActivo()
estaActivoSiempre(cfg) == TRUE
estaActivo(cfg) == cfg.modo # MODOS.DESACTIVADO

\* The mutant of escaparHtml below: the character is copied as it is
escaparHtmlNulo(c) == c

\* _escaparHtml on one character
escaparHtml(c) ==
    CASE c = "&" -> "&amp;"
      [] c = "<" -> "&lt;"
      [] c = ">" -> "&gt;"
      [] c = "\"" -> "&quot;"
      [] c = "'" -> "&#039;"
      [] OTHER -> c

\* A piece of the markup string a strategy returns: one character wrapped in
\* <b class="bionica" style=...>, one character escaped, or (raw) one character
\* copied as it is
Resaltada(c, cfg) ==
    [clase |-> "b",
     estilo |-> IF cfg.color # "inherit" THEN "color:" \o cfg.color ELSE "",
     txt |-> escaparHtml(c)]
Escapada(c) == [clase |-> "texto", estilo |-> "", txt |-> escaparHtml(c)]
Cruda(c) == [clase |-> "crudo", estilo |-> "", txt |-> c]

\* _generarEtiquetaResaltado(caracter)
generarEtiquetaResaltado(c, cfg) == Resaltada(c, cfg)

\* this.configuracion.intensidad as the strategies read it
intensidadUsada(cfg) == cfg.intensidad

\* _calcularCantidadResaltar(longitudPalabra)
calcularCantidadSinTope(longitudPalabra, cfg) ==
    IF longitudPalabra <= 1 THEN 1
    ELSE IF longitudPalabra <= 3 THEN 1
    ELSE Max(1, Min(Techo(longitudPalabra, intensidadUsada(cfg)), longitudPalabra))
calcularCantidadResaltar(longitudPalabra, cfg) ==
    IF longitudPalabra <= 1 THEN 1
    ELSE IF longitudPalabra <= 3 THEN 1
    ELSE Max(1, Min(Techo(longitudPalabra, intensidadUsada(cfg)), longitudPalabra - 1))

\* The loop shared by _aplicarInicio, _aplicarConsonantes and _aplicarVocal: the
\* characters chosen by `elegible` are wrapped while contador < maximo
RECURSIVE BucleContador(_, _, _, _, _, _)
BucleContador(palabra, i, contador, maximo, elegible, cfg) ==
    IF i > Len(palabra) THEN <<>>
    ELSE LET char == palabra[i]
         IN  IF elegible[i] /\ contador < maximo
             THEN <<generarEtiquetaResaltado(char, cfg)>>
                  \o BucleContador(palabra, i + 1, contador + 1, maximo, elegible, cfg)
             ELSE <<Escapada(char)>>
                  \o BucleContador(palabra, i + 1, contador, maximo, elegible, cfg)

\* _escaparHtml(palabra)
escaparPalabra(palabra) == [i \in 1..Len(palabra) |-> Escapada(palabra[i])]

\* _aplicarInicio(palabra)
aplicarInicio(palabra, cfg) ==
    LET soloLetras == SelectSeq(palabra, esLetra)
    IN  IF Len(soloLetras) = 0 THEN escaparPalabra(palabra)
        ELSE BucleContador(palabra, 1, 0,
                           calcularCantidadResaltar(Len(soloLetras), cfg),
                           [i \in 1..Len(palabra) |-> esLetra(palabra[i])], cfg)

\* _aplicarInicioMedio(palabra): i < palabra.length / 2, i 0-based
aplicarInicioMedio(palabra, cfg) ==
    [k \in 1..Len(palabra) |->
        IF 2 * (k - 1) < Len(palabra)
        THEN generarEtiquetaResaltado(palabra[k], cfg)
        ELSE Escapada(palabra[k])]

\* The mutant of aplicarConsonantes below: the cap is taken from the number of
\* letters, not from the length of the word
aplicarConsonantesPorLetras(palabra, cfg) ==
    BucleContador(palabra, 1, 0,
                  Techo(Len(SelectSeq(palabra, esLetra)), intensidadUsada(cfg)),
                  [i \in 1..Len(palabra) |->
                      esLetra(palabra[i]) /\ palabra[i] \notin VOCALES], cfg)

\* _aplicarConsonantes(palabra)
aplicarConsonantes(palabra, cfg) ==
    BucleContador(palabra, 1, 0, Techo(Len(palabra), intensidadUsada(cfg)),
                  [i \in 1..Len(palabra) |->
                      esLetra(palabra[i]) /\ palabra[i] \notin VOCALES], cfg)

\* _aplicarVocal(palabra)
aplicarVocal(palabra, cfg) ==
    BucleContador(palabra, 1, 0, Techo(Len(palabra), intensidadUsada(cfg)),
                  [i \in 1..Len(palabra) |->
                      esLetra(palabra[i]) /\ palabra[i] \in VOCALES], cfg)

\* The for loop of _encontrarFinPrimeraSilaba, i 0-based; -1 when it falls through
RECURSIVE BucleSilaba(_, _, _)
BucleSilaba(palabra, i, encontroVocal) ==
    IF i >= Len(palabra) THEN -1
    ELSE IF palabra[i + 1] \in VOCALES THEN BucleSilaba(palabra, i + 1, TRUE)
    ELSE IF encontroVocal THEN Max(0, i - 1)
    ELSE BucleSilaba(palabra, i + 1, encontroVocal)

\* _encontrarFinPrimeraSilaba(palabra)
encontrarFinPrimeraSilaba(palabra, cfg) ==
    IF Len(palabra) <= 2 THEN Len(palabra) - 1
    ELSE LET fin == BucleSilaba(palabra, 0, FALSE)
         IN  IF fin >= 0 THEN fin
             ELSE Min(Techo(Len(palabra), intensidadUsada(cfg)), Len(palabra) - 1)

\* The loop of _aplicarSilabas: letters are wrapped while contadorLetras <= indice
RECURSIVE BucleSilabas(_, _, _, _, _)
BucleSilabas(palabra, i, contadorLetras, indice, cfg) ==
    IF i > Len(palabra) THEN <<>>
    ELSE LET char == palabra[i]
         IN  IF esLetra(char)
             THEN <<IF contadorLetras <= indice
                    THEN generarEtiquetaResaltado(char, cfg)
                    ELSE Escapada(char)>>
                  \o BucleSilabas(palabra, i + 1, contadorLetras + 1, indice, cfg)
             ELSE <<Escapada(char)>>
                  \o BucleSilabas(palabra, i + 1, contadorLetras, indice, cfg)

\* _aplicarSilabas(palabra)
aplicarSilabas(palabra, cfg) ==
    LET soloLetras == SelectSeq(palabra, esLetra)
    IN  IF Len(soloLetras) = 0 THEN escaparPalabra(palabra)
        ELSE BucleSilabas(palabra, 1, 0, encontrarFinPrimeraSilaba(soloLetras, cfg), cfg)

\* _obtenerEstrategia()(palabra): estrategias[modo] || ((p) => p)
obtenerEstrategia(palabra, cfg) ==
    CASE cfg.modo = MODOS.INICIO -> aplicarInicio(palabra, cfg)
      [] cfg.modo = MODOS.INICIO_MEDIO -> aplicarInicioMedio(palabra, cfg)
      [] cfg.modo = MODOS.CONSONANTES -> aplicarConsonantes(palabra, cfg)
      [] cfg.modo = MODOS.VOCAL -> aplicarVocal(palabra, cfg)
      [] cfg.modo = MODOS.SILABAS -> aplicarSilabas(palabra, cfg)
      [] OTHER -> [i \in 1..Len(palabra) |-> Cruda(palabra[i])]

\* The character an entity or a raw character of markup text stands for (the
\* HTML parser's decoding of text)
desescapar(s) ==
    CASE s = "&amp;" -> "&"
      [] s = "&lt;" -> "<"
      [] s = "&gt;" -> ">"
      [] s = "&quot;" -> "\""
      [] s = "&#039;" -> "'"
      [] s = "&nbsp;" -> "nbsp"
      [] OTHER -> s

\* How innerHTML writes one character of a text node
serializarCaracter(c) ==
    CASE c = "&" -> "&amp;"
      [] c = "<" -> "&lt;"
      [] c = ">" -> "&gt;"
      [] c = "nbsp" -> "&nbsp;"
      [] OTHER -> c

\* span.innerHTML = resultado: the nodes the strategy's markup parses to. A run of
\* unwrapped characters is one text node; each wrapped character is a <b>
RECURSIVE BuclePiezas(_, _, _)
BuclePiezas(piezas, i, pendiente) ==
    LET cerrar == IF pendiente = <<>> THEN <<>> ELSE <<Texto(pendiente)>>
    IN  IF i > Len(piezas) THEN cerrar
        ELSE IF piezas[i].clase = "b"
             THEN cerrar
                  \o <<Elemento("B", "bionica", piezas[i].estilo,
                                <<Texto(<<desescapar(piezas[i].txt)>>)>>)>>
                  \o BuclePiezas(piezas, i + 1, <<>>)
             ELSE BuclePiezas(piezas, i + 1, Append(pendiente, desescapar(piezas[i].txt)))

parsearInnerHtml(piezas) == BuclePiezas(piezas, 1, <<>>)

\* _procesarPalabra(palabra)
procesarPalabra(palabra, cfg) ==
    Elemento("SPAN", "palabra-bionica", "", parsearInnerHtml(obtenerEstrategia(palabra, cfg)))

\* texto.split(/(\s+)/) without its empty parts: the maximal runs of whitespace
\* and of non-whitespace, in order
RECURSIVE Partes(_, _, _)
Partes(cs, i, actual) ==
    IF i > Len(cs) THEN (IF actual = <<>> THEN <<>> ELSE <<actual>>)
    ELSE IF actual = <<>> \/ esEspacio(cs[i]) = esEspacio(actual[1])
         THEN Partes(cs, i + 1, Append(actual, cs[i]))
         ELSE <<actual>> \o Partes(cs, i + 1, <<cs[i]>>)

\* _procesarTexto(texto): the nodes of the fragment
procesarTexto(cs, cfg) ==
    LET partes == Partes(cs, 1, <<>>)
    IN  [k \in 1..Len(partes) |->
            IF esEspacio(partes[k][1]) THEN Texto(partes[k])
            ELSE procesarPalabra(partes[k], cfg)]

RECURSIVE Aplanar(_)
Aplanar(ss) == IF ss = <<>> THEN <<>> ELSE Head(ss) \o Aplanar(Tail(ss))

\* const etiquetasExcluidas
etiquetasExcluidas == {"SCRIPT", "STYLE", "CODE", "PRE", "TEXTAREA"}

\* _procesarNodo(nodo): the nodes that stand in nodo's place afterwards
RECURSIVE procesarNodo(_, _)
procesarNodo(nodo, cfg) ==
    IF nodo.clase = "texto"
    THEN IF \E k \in 1..Len(nodo.cs) : ~esEspacio(nodo.cs[k])
         THEN procesarTexto(nodo.cs, cfg)
         ELSE <<nodo>>
    ELSE IF nodo.tag \notin etiquetasExcluidas
         THEN <<[nodo EXCEPT !.hijos =
                    Aplanar([k \in 1..Len(nodo.hijos) |-> procesarNodo(nodo.hijos[k], cfg)])]>>
         ELSE <<nodo>>

\* new DOMParser().parseFromString(html, 'text/html') on one node of the markup
RECURSIVE parsear(_)
parsear(nodo) ==
    IF nodo.clase = "texto"
    THEN [nodo EXCEPT !.cs = [k \in 1..Len(nodo.cs) |-> desescapar(nodo.cs[k])]]
    ELSE [nodo EXCEPT !.hijos = [k \in 1..Len(nodo.hijos) |-> parsear(nodo.hijos[k])]]

\* doc.body.innerHTML on one node
RECURSIVE serializar(_)
serializar(nodo) ==
    IF nodo.clase = "texto"
    THEN [nodo EXCEPT !.cs = [k \in 1..Len(nodo.cs) |-> serializarCaracter(nodo.cs[k])]]
    ELSE [nodo EXCEPT !.hijos = [k \in 1..Len(nodo.hijos) |-> serializar(nodo.hijos[k])]]

\* aplicar(html): markup is the sequence of its top-level nodes, the characters of
\* its text as written (an entity, or a raw character)
aplicar(html, cfg) ==
    IF ~estaActivo(cfg) THEN html
    ELSE LET body == [k \in 1..Len(html) |-> parsear(html[k])]
             procesado == Aplanar([k \in 1..Len(body) |-> procesarNodo(body[k], cfg)])
         IN  [k \in 1..Len(procesado) |-> serializar(procesado[k])]

\* Chapter markup handed to aplicar
Marcados ==
    {<<>>,
     <<Texto(<<"l", "e">>)>>,
     <<Texto(<<"l", "e", " ", "&">>)>>,
     <<Elemento("P", "", "", <<Texto(<<"l", "e", " ", "l", "o'", "&amp;">>)>>)>>,
     <<Elemento("P", "", "",
                <<Texto(<<"l", "e", " ">>),
                  Elemento("CODE", "", "", <<Texto(<<"l", "e">>)>>)>>),
       Texto(<<" ">>)>>,
     <<Elemento("PRE", "", "", <<Elemento("SPAN", "", "", <<Texto(<<"l", "e">>)>>)>>)>>,
     <<Elemento("DIV", "", "",
                <<Elemento("SCRIPT", "", "", <<Texto(<<"l", "e">>)>>), Texto(<<"l">>)>>)>>,
     <<Elemento("svg", "", "", <<Elemento("style", "", "", <<Texto(<<"l", "e">>)>>)>>)>>,
     <<Elemento("DIV", "", "",
                <<Elemento("P", "", "", <<Texto(<<"l", "a_", "l", "e", "l">>)>>)>>)>>}

\* What localStorage may hold when the page is opened: nothing, a configuration
\* with a mode this version does not know, one with an intensity outside [0,1]
AlmacenesIniciales ==
    {Nada,
     [modo |-> ModoDesconocido, intensidad |-> 5, color |-> "inherit"],
     [modo |-> MODOS.SILABAS, intensidad |-> 15, color |-> "#e74c3c"]}

\* _cargarConfiguracion(): { ...this.configuracion, ...JSON.parse(guardada) }
cargarConfiguracion(guardada) ==
    IF guardada = Nada THEN ConfiguracionPorDefecto ELSE guardada

\* cambiarModo(modo); localStorage.setItem is taken to succeed
CambiarModo(modo) ==
    /\ IF modo \in ValoresModo
       THEN /\ configuracion' = [configuracion EXCEPT !.modo = modo]
            /\ almacen' = configuracion'
       ELSE UNCHANGED <<configuracion, almacen>>
    /\ UNCHANGED <<ultima, varsPalm, varsLibro, varsServicio, varsVisor, varsAplicacion>>

\* cambiarIntensidad(intensidad)
CambiarIntensidad(intensidad) ==
    /\ configuracion' = [configuracion EXCEPT !.intensidad = intensidad]
    /\ almacen' = configuracion'
    /\ UNCHANGED <<ultima, varsPalm, varsLibro, varsServicio, varsVisor, varsAplicacion>>

\* cambiarColor(color)
CambiarColor(color) ==
    /\ configuracion' = [configuracion EXCEPT !.color = color]
    /\ almacen' = configuracion'
    /\ UNCHANGED <<ultima, varsPalm, varsLibro, varsServicio, varsVisor, varsAplicacion>>

\* new ControladorLecturaBionica() on a page reload: defaults, then the saved values
Recargar ==
    /\ configuracion' = cargarConfiguracion(almacen)
    /\ UNCHANGED <<almacen, ultima, varsPalm, varsLibro, varsServicio, varsVisor, varsAplicacion>>

\* aplicar(html), remembered with the configuration it ran under
Aplicar(html) ==
    /\ ultima' = [tipo |-> "aplicar", html |-> html, config |-> configuracion,
                  salida |-> aplicar(html, configuracion),
                  intensidad |-> intensidadUsada(configuracion)]
    /\ UNCHANGED <<configuracion, almacen, varsPalm, varsLibro, varsServicio, varsVisor, varsAplicacion>>

\* The words handed to a strategy: every word of up to MaxPalabra characters over
\* a consonant, a vowel, an accented vowel of the letter class, an accented vowel
\* of VOCALES outside the letter class and a non-letter; two longer words; and
\* two words with the other characters _escaparHtml replaces
Alfabeto == {"l", "e", "o'", "a_", "&"}
Palabras ==
    (SeqsHasta(Alfabeto, MaxPalabra) \ {<<>>})
    \cup {<<"l", "e", "c", "t", "u", "r", "a">>, <<"b", "i", "o'", "n", "i", "c", "a">>}
    \cup {<<"<", "l", ">">>, <<"\"", "e", "'", "l">>}

\* The configurations the setters and a load can leave
Configuraciones ==
    [modo : ValoresModo \cup {ModoDesconocido}, intensidad : Intensidades, color : Colores]

\* _procesarPalabra(palabra) under the current configuration: the markup the
\* strategy returns
ProcesarPalabra ==
    /\ ultima.tipo = "pendiente"
    /\ ultima' = [tipo |-> "palabra", palabra |-> ultima.palabra, config |-> configuracion,
                  salida |-> obtenerEstrategia(ultima.palabra, configuracion),
                  intensidad |-> intensidadUsada(configuracion)]
    /\ UNCHANGED <<configuracion, almacen, varsPalm, varsLibro, varsServicio, varsVisor, varsAplicacion>>

(***************************************************************************)
(* ExportadorEpub                                                          *)
(***************************************************************************)

\* Most chapters of an exported Book
MaxCapitulos == 2

\* The chapters of the Books handed to exportar: an id (the EPUB parser can
\* repeat one), a title (one with a character XML escapes, one empty before the
\* Capitulo default) and the chapter's markup
CapitulosExportables ==
    {<<"c1", "Uno", <<Texto(<<"l", "e">>)>>>>,
     <<"c1", "A&B", <<Elemento("P", "", "", <<Texto(<<"l", "e", " ", "l", "o'", "&amp;">>)>>)>>>>,
     <<"c2", "", <<Texto(<<"l", "e", "&nbsp;", "l">>)>>>>}

LibrosExportables ==
    {LibroAnalizado("epub",
                    [k \in 1..Len(cs) |-> Capitulo(cs[k][1], cs[k][2], cs[k][3], k - 1)]) :
        cs \in SeqsHasta(CapitulosExportables, MaxCapitulos)}

\* _escaparXml(texto), on the titles of the model: '&' becomes '&amp;'; the
\* other titles have none of & < > " '
escaparXml(texto) ==
    CASE texto = "A&B" -> "A&amp;B"
      [] OTHER -> texto

\* _limpiarParaXhtml(html): '&nbsp;' becomes '&#160;'; the markup of the model has
\* no br, hr or img for the other replacements to rewrite
RECURSIVE limpiarParaXhtml(_)
limpiarParaXhtml(nodos) ==
    [k \in 1..Len(nodos) |->
        IF nodos[k].clase = "texto"
        THEN [nodos[k] EXCEPT !.cs = [j \in 1..Len(nodos[k].cs) |->
                                        IF nodos[k].cs[j] = "&nbsp;" THEN "&#160;"
                                        ELSE nodos[k].cs[j]]]
        ELSE [nodos[k] EXCEPT !.hijos = limpiarParaXhtml(nodos[k].hijos)]]

\* zip.file(nombre, contenido): the entry is added after those there are, its
\* folder (created by JSZip when it is new) before it. A name is the sequence of
\* its '/'-separated segments, a folder's name ends with the empty segment
zipFile(entradas, nombre) ==
    LET carpeta == SubSeq(nombre, 1, Len(nombre) - 1) \o <<"">>
        conCarpeta == IF Len(nombre) = 1 \/ \E k \in 1..Len(entradas) : entradas[k] = carpeta
                      THEN entradas ELSE Append(entradas, carpeta)
    IN  IF \E k \in 1..Len(conCarpeta) : conCarpeta[k] = nombre THEN conCarpeta
        ELSE Append(conCarpeta, nombre)

\* `capitulo-${i}.xhtml`
nombreCapitulo(i) == "capitulo-" \o ToString(i) \o ".xhtml"

\* _generarCssBionica(controladorBionica): the color rule of b.bionica
generarCssBionica(cfg) ==
    IF cfg.color # "inherit" THEN "color: " \o cfg.color \o ";" ELSE ""

\* libro.capitulos.map(cap => ({ ...cap, contenidoBionico: aplicar(...) }))
capitulosConBionica(libroExportado, cfg) ==
    [k \in 1..Len(libroExportado.capitulos) |->
        [capitulo |-> libroExportado.capitulos[k],
         contenidoBionico |-> aplicar(libroExportado.capitulos[k].contenidoHtml, cfg)]]

\* _generarXhtmlCapitulo(capitulo, indice): the title (in <title> and <h2>), the
\* stylesheet link and the body
generarXhtmlCapitulo(cap, indice) ==
    [titulo |-> escaparXml(cap.capitulo.titulo),
     hojaEstilos |-> "estilos.css",
     contenido |-> limpiarParaXhtml(cap.contenidoBionico)]

\* _generarContentOpf(libro, capitulos): the manifest items and the spine itemrefs
generarContentOpf(capitulos) ==
    [manifest |->
        <<[id |-> "estilos", href |-> "estilos.css", mediaType |-> "text/css"]>>
        \o [k \in 1..Len(capitulos) |->
                [id |-> "cap-" \o ToString(k - 1), href |-> nombreCapitulo(k - 1),
                 mediaType |-> "application/xhtml+xml"]]
        \o <<[id |-> "ncx", href |-> "toc.ncx", mediaType |-> "application/x-dtbncx+xml"]>>,
     spine |-> [k \in 1..Len(capitulos) |-> "cap-" \o ToString(k - 1)]]

\* The mutant of generarTocNcx below: playOrder counts from 0
generarTocNcxDesdeCero(capitulos) ==
    [k \in 1..Len(capitulos) |->
        [id |-> "navpoint-" \o ToString(k - 1), playOrder |-> k - 1,
         texto |-> escaparXml(capitulos[k].capitulo.titulo),
         src |-> nombreCapitulo(k - 1)]]

\* _generarTocNcx(libro, capitulos): the navPoints of the navMap (i = k - 1)
generarTocNcx(capitulos) ==
    [k \in 1..Len(capitulos) |->
        [id |-> "navpoint-" \o ToString(k - 1), playOrder |-> (k - 1) + 1,
         texto |-> escaparXml(capitulos[k].capitulo.titulo),
         src |-> nombreCapitulo(k - 1)]]

\* capitulosConBionica.forEach((cap, i) => zip.file(`OEBPS/capitulo-${i}.xhtml`, ...))
RECURSIVE BucleCapitulos(_, _, _)
BucleCapitulos(entradas, capitulos, k) ==
    IF k > Len(capitulos) THEN entradas
    ELSE BucleCapitulos(zipFile(entradas, <<"OEBPS", nombreCapitulo(k - 1)>>),
                        capitulos, k + 1)

\* exportar(libro, controladorBionica): the archive written (its entries in
\* order and what the generated documents hold), or the error thrown
exportar(libroExportado, cfg, hayJSZip) ==
    IF ~hayJSZip THEN [tipo |-> "error", mensaje |-> "JSZip no esta disponible."]
    ELSE LET caps == capitulosConBionica(libroExportado, cfg)
             e1 == zipFile(<<>>, <<"mimetype">>)
             e2 == zipFile(e1, <<"META-INF", "container.xml">>)
             e3 == zipFile(e2, <<"OEBPS", "estilos.css">>)
             e4 == BucleCapitulos(e3, caps, 1)
             e5 == zipFile(e4, <<"OEBPS", "content.opf">>)
             e6 == zipFile(e5, <<"OEBPS", "toc.ncx">>)
         IN  [tipo |-> "archivo",
              entradas |-> e6,
              mimetype |-> "application/epub+zip",
              rootfile |-> "OEBPS/content.opf",
              css |-> generarCssBionica(cfg),
              documentos |-> [k \in 1..Len(caps) |->
                                 [nombre |-> <<"OEBPS", nombreCapitulo(k - 1)>>]
                                 @@ generarXhtmlCapitulo(caps[k], k - 1)],
              opf |-> generarContentOpf(caps),
              navMap |-> generarTocNcx(caps)]

\* The export button: exportar on the Book shown, under the controller's
\* configuration; the Book and the configuration are kept with the result
Exportar(libroExportado, hayJSZip) ==
    /\ exportado' = [tipo |-> "exportacion", libro |-> libroExportado,
                     config |-> configuracion,
                     salida |-> exportar(libroExportado, configuracion, hayJSZip)]
    /\ UNCHANGED <<ruta, carga, varsPalm, varsLibro, varsBionica, varsVisor, varsAplicacion>>

(***************************************************************************)
(* ControladorVisor                                                        *)
(***************************************************************************)

\* Most runs of actualizarLecturaBionica on one viewer
MaxCambios == 2
\* Largest index handed to irACapitulo
MaxIndice == 3

\* A Book as the viewer reads it: the title and the author (the progress key is
\* made of them) and the markup of its chapters
LibroVisor(titulo, autor, contenidos) ==
    LibroAnalizado("epub",
                   [k \in 1..Len(contenidos) |->
                       Capitulo("c" \o ToString(k), "Uno", contenidos[k], k - 1)])
    @@ [titulo |-> titulo, autor |-> autor]

\* The Books handed to cargarLibro: one of three chapters, the last with empty
\* markup; another file of the same title and author with one chapter; a Book
\* of two chapters; a Book without chapters (an EPUB whose spine resolves nothing)
LibrosVisor ==
    {LibroVisor("T", "A", <<<<Texto(<<"l", "e", " ", "&">>)>>,
                            <<Elemento("P", "", "", <<Texto(<<"l", "a_", "l", "e", "l">>)>>)>>,
                            <<>>>>),
     LibroVisor("T", "A", <<<<Texto(<<"l", "e">>)>>>>),
     LibroVisor("U", "A", <<<<Texto(<<"l", "e">>)>>,
                            <<Elemento("CODE", "", "", <<Texto(<<"l", "e">>)>>)>>>>),
     LibroVisor("V", "A", <<>>)}

\* _generarIdLibro(): a hash of titulo + '_' + autor, the same for the same pair
generarIdLibro(libroActual) == <<libroActual.titulo, libroActual.autor>>

\* _codificarBase64(texto): the UTF-8 bytes of the markup in base64; the markup a
\* parser returns has no lone surrogate, so encodeURIComponent does not throw
codificarBase64(texto) == [base64 |-> texto]

\* _decodificarBase64(base64)
decodificarBase64(original) == original.base64

\* seccion.offsetTop of the section of chapter indice (0-based): the sections
\* follow one another down the page
offsetTop(indice) == indice * 1000

\* window.scrollY when the scroll handler runs
PosicionesScroll == {0, 950, 1900, 5000}

\* _guardarProgreso(): localStorage.setItem is taken to succeed
guardarProgreso(v, guardados) ==
    IF v.libroActual = Nada THEN guardados
    ELSE (generarIdLibro(v.libroActual) :> v.capituloActual) @@ guardados

\* _restaurarProgreso(): this.capituloActual = progreso.capitulo || 0 when
\* something is saved under the Book's id
restaurarProgreso(libroActual, capituloActual, guardados) ==
    IF generarIdLibro(libroActual) \in DOMAIN guardados
    THEN guardados[generarIdLibro(libroActual)]
    ELSE capituloActual

\* cargarLibro(libro) on a new ControladorVisor up to _calcularPosicionesCapitulos:
\* _renderizarLibro writes each chapter's markup, through aplicar when the mode is
\* active, keeps the original in data-contenido-original, and restores the saved
\* progress; posicionesCapitulos has one entry per section
cargarLibro(libroCargado, cfg, guardados) ==
    [tipo |-> "visor",
     libroActual |-> libroCargado,
     capituloActual |-> restaurarProgreso(libroCargado, 0, guardados),
     posicionesCapitulos |-> [k \in 1..Len(libroCargado.capitulos) |-> offsetTop(k - 1)],
     mostrado |-> [k \in 1..Len(libroCargado.capitulos) |->
                      IF estaActivo(cfg)
                      THEN aplicar(libroCargado.capitulos[k].contenidoHtml, cfg)
                      ELSE libroCargado.capitulos[k].contenidoHtml],
     originales |-> [k \in 1..Len(libroCargado.capitulos) |->
                        codificarBase64(libroCargado.capitulos[k].contenidoHtml)],
     actualizaciones |-> 0]

\* The mutant of actualizarLecturaBionica below: aplicar runs on what is shown
actualizarSobreLoMostrado(v, cfg) ==
    [v EXCEPT !.mostrado = [k \in 1..Len(v.mostrado) |->
                               IF estaActivo(cfg) THEN aplicar(v.mostrado[k], cfg)
                               ELSE v.mostrado[k]],
              !.actualizaciones = @ + 1]

\* actualizarLecturaBionica(): each .contenido-capitulo whose
\* data-contenido-original is not empty is rewritten from the decoded original
actualizarLecturaBionica(v, cfg) ==
    [v EXCEPT !.mostrado =
                 [k \in 1..Len(v.mostrado) |->
                     IF v.originales[k].base64 # <<>>
                     THEN (IF estaActivo(cfg)
                           THEN aplicar(decodificarBase64(v.originales[k]), cfg)
                           ELSE decodificarBase64(v.originales[k]))
                     ELSE v.mostrado[k]],
              !.actualizaciones = @ + 1]

\* irACapitulo(indice); the section of every entry of posicionesCapitulos exists
irACapitulo(v, indice) ==
    IF indice < 0 \/ indice >= Len(v.posicionesCapitulos) THEN v
    ELSE [v EXCEPT !.capituloActual = indice]

\* actualizarCapituloActual(scrollTop): the last section that starts at most 100
\* above scrollTop
actualizarCapituloActual(v, scrollTop) ==
    LET alcanzados == {i \in 0..(Len(v.posicionesCapitulos) - 1) :
                          scrollTop >= v.posicionesCapitulos[i + 1] - 100}
    IN  IF alcanzados = {} THEN v
        ELSE [v EXCEPT !.capituloActual =
                          CHOOSE i \in alcanzados : \A j \in alcanzados : j <= i]

\* _mostrarVisor(libro): a new ControladorVisor over the container loads the Book
\* and saves the progress
MostrarVisor(libroCargado) ==
    /\ visor' = cargarLibro(libroCargado, configuracion, progreso)
    /\ progreso' = guardarProgreso(visor', progreso)
    /\ UNCHANGED <<varsPalm, varsLibro, varsBionica, varsServicio, varsAplicacion>>

\* A click on the chapter list, or any call of irACapitulo(indice)
IrACapitulo(indice) ==
    /\ visor # Nada
    /\ visor' = irACapitulo(visor, indice)
    /\ progreso' = IF indice >= 0 /\ indice < Len(visor.posicionesCapitulos)
                   THEN guardarProgreso(visor', progreso) ELSE progreso
    /\ UNCHANGED <<varsPalm, varsLibro, varsBionica, varsServicio, varsAplicacion>>

\* siguienteCapitulo()
SiguienteCapitulo ==
    /\ visor # Nada
    /\ visor' = irACapitulo(visor, visor.capituloActual + 1)
    /\ progreso' = IF visor' # visor THEN guardarProgreso(visor', progreso) ELSE progreso
    /\ UNCHANGED <<varsPalm, varsLibro, varsBionica, varsServicio, varsAplicacion>>

\* anteriorCapitulo()
AnteriorCapitulo ==
    /\ visor # Nada
    /\ visor' = irACapitulo(visor, visor.capituloActual - 1)
    /\ progreso' = IF visor' # visor THEN guardarProgreso(visor', progreso) ELSE progreso
    /\ UNCHANGED <<varsPalm, varsLibro, varsBionica, varsServicio, varsAplicacion>>

\* The scroll handler: actualizarCapituloActual(window.scrollY), which saves the
\* progress when the chapter changes
ActualizarCapituloActual(scrollTop) ==
    /\ visor # Nada
    /\ visor' = actualizarCapituloActual(visor, scrollTop)
    /\ progreso' = IF visor' # visor THEN guardarProgreso(visor', progreso) ELSE progreso
    /\ UNCHANGED <<varsPalm, varsLibro, varsBionica, varsServicio, varsAplicacion>>

\* The change handler of the mode selector: cambiarModo, then
\* actualizarLecturaBionica when there is a viewer
AlCambiarModo(modo) ==
    /\ IF visor = Nada THEN TRUE ELSE visor.actualizaciones < MaxCambios
    /\ IF modo \in ValoresModo
       THEN /\ configuracion' = [configuracion EXCEPT !.modo = modo]
            /\ almacen' = configuracion'
       ELSE UNCHANGED <<configuracion, almacen>>
    /\ visor' = IF visor = Nada THEN visor
                ELSE actualizarLecturaBionica(visor, configuracion')
    /\ UNCHANGED <<ultima, progreso, varsPalm, varsLibro, varsServicio, varsAplicacion>>

\* The click handler of the intensity buttons
AlCambiarIntensidad(intensidad) ==
    /\ IF visor = Nada THEN TRUE ELSE visor.actualizaciones < MaxCambios
    /\ configuracion' = [configuracion EXCEPT !.intensidad = intensidad]
    /\ almacen' = configuracion'
    /\ visor' = IF visor = Nada THEN visor
                ELSE actualizarLecturaBionica(visor, configuracion')
    /\ UNCHANGED <<ultima, progreso, varsPalm, varsLibro, varsServicio, varsAplicacion>>

\* The handlers of the colour buttons and of the colour input
AlCambiarColor(color) ==
    /\ IF visor = Nada THEN TRUE ELSE visor.actualizaciones < MaxCambios
    /\ configuracion' = [configuracion EXCEPT !.color = color]
    /\ almacen' = configuracion'
    /\ visor' = IF visor = Nada THEN visor
                ELSE actualizarLecturaBionica(visor, configuracion')
    /\ UNCHANGED <<ultima, progreso, varsPalm, varsLibro, varsServicio, varsAplicacion>>

(***************************************************************************)
(* AplicacionLector: the loads of _procesarArchivo                         *)
(***************************************************************************)

\* Loads started in one behaviour
MaxCargas == 2

\* A File the user picks or drops: its name, whether the FileReader can read it,
\* and what analizar makes of its bytes, a Book or the failure it catches
ArchivoElegido(name, legible, analisis) ==
    [name |-> name, legible |-> legible, analisis |-> analisis]

ArchivosElegidos ==
    LET epub == <<"a", ".", "e", "p", "u", "b">>
        mobi == <<"a", ".", "M", "o", "b", "i">>
        pdf == <<"a", ".", "p", "d", "f">>
        tresCapitulos ==
            CHOOSE l \in LibrosVisor : l.titulo = "T" /\ Len(l.capitulos) = 3
        unCapitulo ==
            CHOOSE l \in LibrosVisor : l.titulo = "T" /\ Len(l.capitulos) = 1
        dosCapitulos == CHOOSE l \in LibrosVisor : l.titulo = "U"
    IN  {ArchivoElegido(epub, TRUE, tresCapitulos),
         ArchivoElegido(epub, TRUE, dosCapitulos),
         ArchivoElegido(mobi, TRUE, [unCapitulo EXCEPT !.formato = "mobi"]),
         ArchivoElegido(pdf, TRUE, dosCapitulos),
         ArchivoElegido(epub, FALSE, tresCapitulos),
         ArchivoElegido(epub, TRUE, Excepcion(<<"Estructura OPF invalida">>))}

\* What the promise of gestorArchivos.cargarArchivo(archivo) settles with: the
\* Book, or the error thrown for a name no parser takes, by _leerArchivo, or by
\* analizar
cargarArchivo(archivo) ==
    LET analizador == buscarAnalizador(archivo.name)
    IN  IF analizador = Nada
        THEN [tipo |-> "error",
              mensaje |-> <<"Formato no soportado: ", archivo.name,
                            ". Formatos validos: ", obtenerFormatosSoportados>>]
        ELSE IF ~archivo.legible
        THEN [tipo |-> "error", mensaje |-> <<"Error al leer el archivo">>]
        ELSE IF archivo.analisis.tipo = "excepcion"
        THEN ErrorAnalisis(analizador.formato, archivo.analisis.mensaje)
        ELSE archivo.analisis

\* _mostrarCarga(visible)
mostrarCarga(p, visible) == [p EXCEPT !.cargaVisible = visible]

\* _mostrarError(mensaje): the message is shown and a timer of 5 s is set
mostrarError(p, mensaje) ==
    [p EXCEPT !.mensajeError = mensaje, !.errorVisible = TRUE, !.temporizadores = @ + 1]

\* A variant of visorTrasCarga below in which the catch branch drops the viewer
visorTrasCargaVaciando(cargado, v, cfg, guardados) ==
    IF cargado.tipo = "libro" THEN cargarLibro(cargado, cfg, guardados) ELSE Nada

\* this.controladorVisor after the try/catch of _procesarArchivo: _mostrarVisor
\* builds a new viewer on the Book; the catch branch does not touch it
visorTrasCarga(cargado, v, cfg, guardados) ==
    IF cargado.tipo = "libro" THEN cargarLibro(cargado, cfg, guardados) ELSE v

\* The screen after the catch and the finally of _procesarArchivo
pantallaTrasCarga(cargado, p) ==
    mostrarCarga(IF cargado.tipo = "libro" THEN p ELSE mostrarError(p, cargado.mensaje),
                 FALSE)

\* Loads started so far
iniciadas == Len(cargas.pendientes) + Len(cargas.terminadas)

\* _procesarArchivo from the settlement of the awaited promise to its end, for
\* the load c, p being the screen and restantes the loads still in flight
Reanudar(c, p, restantes) ==
    LET cargado == cargarArchivo(c.archivo)
    IN  /\ visor' = visorTrasCarga(cargado, visor, configuracion, progreso)
        /\ progreso' = IF cargado.tipo = "libro" THEN guardarProgreso(visor', progreso)
                       ELSE progreso
        /\ pantalla' = pantallaTrasCarga(cargado, p)
        /\ cargas' = [pendientes |-> restantes,
                      terminadas |->
                          Append(cargas.terminadas,
                                 [turno |-> c.turno, archivo |-> c.archivo,
                                  iniciadas |-> Len(restantes) + Len(cargas.terminadas) + 1])]

\* The change or drop handler: _procesarArchivo(archivo) up to its await. The
\* indicator is shown and cargarArchivo is called; for a name no parser takes
\* the promise is rejected at once and the rest runs before any other event
ProcesarArchivo(archivo) ==
    /\ iniciadas < MaxCargas
    /\ LET c == [turno |-> iniciadas + 1, archivo |-> archivo]
           p == mostrarCarga(pantalla, TRUE)
       IN  IF buscarAnalizador(archivo.name) = Nada
           THEN Reanudar(c, p, cargas.pendientes)
           ELSE /\ pantalla' = p
                /\ cargas' = [cargas EXCEPT !.pendientes = Append(@, c)]
                /\ UNCHANGED <<visor, progreso>>
    /\ UNCHANGED <<varsPalm, varsLibro, varsBionica, varsServicio>>

\* The promise of a load in flight settles, after the FileReader event and the
\* parser's work, which take a time of their own for each file
TerminarCarga(k) ==
    /\ k \in 1..Len(cargas.pendientes)
    /\ Reanudar(cargas.pendientes[k], pantalla,
                SubSeq(cargas.pendientes, 1, k - 1)
                    \o SubSeq(cargas.pendientes, k + 1, Len(cargas.pendientes)))
    /\ UNCHANGED <<varsPalm, varsLibro, varsBionica, varsServicio>>

\* A timer of _mostrarError fires
OcultarError ==
    /\ pantalla.temporizadores > 0
    /\ pantalla' = [pantalla EXCEPT !.errorVisible = FALSE, !.temporizadores = @ - 1]
    /\ UNCHANGED <<cargas, varsVisor, varsPalm, varsLibro, varsBionica, varsServicio>>

(***************************************************************************)
(* Specifications                                                          *)
(***************************************************************************)

InitPalm ==
    /\ datos = <<>>
    /\ cursor = 0
    /\ resultado = <<>>
    /\ pcPalm = "inactivo"
    /\ ultimoPaso = Nada
    /\ previo = Nada

InitLibro ==
    /\ entrada = Nada
    /\ libro = Nada

\* The page opens: the controller is built over what localStorage holds
InitBionica ==
    /\ almacen \in AlmacenesIniciales
    /\ configuracion = cargarConfiguracion(almacen)
    /\ ultima = Nada

\* A word and a configuration for one run of a strategy
InitPalabra ==
    /\ almacen = Nada
    /\ configuracion \in {c \in Configuraciones : estaActivo(c)}
    /\ ultima \in {[tipo |-> "pendiente", palabra |-> p] : p \in Palabras}

\* The controller over an empty localStorage
InitSinAlmacen ==
    /\ almacen = Nada
    /\ configuracion = cargarConfiguracion(almacen)
    /\ ultima = Nada

InitServicio ==
    /\ ruta = Nada
    /\ carga = Nada
    /\ exportado = Nada
    /\ visor = Nada
    /\ progreso = <<>>
    /\ pantalla = [cargaVisible |-> FALSE, errorVisible |-> FALSE, mensajeError |-> Nada,
                   temporizadores |-> 0]
    /\ cargas = [pendientes |-> <<>>, terminadas |-> <<>>]

Init == InitPalm /\ InitLibro /\ InitBionica /\ InitServicio

InitAnalizadores == InitPalm /\ InitLibro /\ InitSinAlmacen /\ InitServicio

\* The decompressor on one record of Registros
NextPalm ==
    \/ pcPalm = "inactivo" /\ \E d \in Registros : EntrarPalm(d)
    \/ IterarPalm
    \/ SalirPalm

SpecPalm == InitAnalizadores /\ [][NextPalm]_vars

\* The decompressor running to its end: the loop is not abandoned midway
SpecPalmJusta == SpecPalm /\ WF_vars(IterarPalm) /\ WF_vars(SalirPalm)

\* Calls of the decompressor one after the other, any earlier one remembered
NextPureza ==
    \/ \E d \in RegistrosRecordados : EntrarPalm(d)
    \/ IterarPalm
    \/ SalirPalm
    \/ Recordar

SpecPureza == InitAnalizadores /\ [][NextPureza]_vars

\* Each parser on every file of EntradasEpub and EntradasMobi. A parser keeps
\* nothing between two calls of analizar, so a behaviour parses one file
NextLibro ==
    \/ libro = Nada /\ \E e \in EntradasEpub : AnalizarEpub(e)
    \/ libro = Nada /\ \E e \in EntradasMobi : AnalizarMobi(e)

SpecLibro == InitAnalizadores /\ [][NextLibro]_vars

\* The controller: setters, reloads and aplicar in any order
NextBionica ==
    \/ \E m \in ValoresModo \cup {ModoDesconocido} : CambiarModo(m)
    \/ \E x \in Intensidades : CambiarIntensidad(x)
    \/ \E c \in Colores : CambiarColor(c)
    \/ Recargar
    \/ \E h \in Marcados : Aplicar(h)

SpecBionica == Init /\ [][NextBionica]_vars

\* One strategy run per word and configuration
InitPalabras == InitPalm /\ InitLibro /\ InitPalabra /\ InitServicio

NextPalabra == ProcesarPalabra

SpecPalabra == InitPalabras /\ [][NextPalabra]_vars

\* The hrefs the EPUB parser resolves
NextRuta ==
    \/ \E d \in Directorios, h \in Hrefs : ResolverCapitulo(d, h)
    \/ \E d \in Directorios, h \in Hrefs : ResolverImagen(d, h)

SpecRuta == InitAnalizadores /\ [][NextRuta]_vars

\* Files loaded one after the other
NextCarga ==
    \/ \E a \in Archivos : CargarArchivo(a)
    \/ ArchivoLeido
    \/ AnalisisTerminado

SpecCarga == InitAnalizadores /\ [][NextCarga]_vars

\* Exports of Books under the modes the controller can be in
NextExportar ==
    \/ \E l \in LibrosExportables, z \in BOOLEAN : Exportar(l, z)
    \/ \E m \in ValoresModo : CambiarModo(m)
    \/ \E c \in Colores : CambiarColor(c)

SpecExportar == InitAnalizadores /\ [][NextExportar]_vars

\* A viewer: Books loaded one after the other, the reader moving between the
\* chapters and changing the bionic controls
NextVisor ==
    \/ \E l \in LibrosVisor : MostrarVisor(l)
    \/ \E i \in -1..MaxIndice : IrACapitulo(i)
    \/ SiguienteCapitulo
    \/ AnteriorCapitulo
    \/ \E y \in PosicionesScroll : ActualizarCapituloActual(y)
    \/ \E m \in ValoresModo : AlCambiarModo(m)
    \/ \E x \in {3, 5, 10} : AlCambiarIntensidad(x)
    \/ \E c \in Colores : AlCambiarColor(c)

SpecVisor == InitAnalizadores /\ [][NextVisor]_vars

\* The application: files picked while earlier loads may still be in flight, the
\* reader moving between the chapters of the Book shown
NextAplicacion ==
    \/ \E a \in ArchivosElegidos : ProcesarArchivo(a)
    \/ \E k \in 1..MaxCargas : TerminarCarga(k)
    \/ OcultarError
    \/ \E i \in 0..MaxIndice : IrACapitulo(i)

SpecAplicacion == InitAnalizadores /\ [][NextAplicacion]_vars

\* Everything together
Next ==
    \/ NextPureza \/ NextLibro \/ NextBionica \/ NextRuta \/ NextCarga \/ NextExportar
    \/ NextVisor \/ NextAplicacion

Spec == Init /\ [][Next]_vars

(***************************************************************************)
(* The claims                                                              *)
(***************************************************************************)

LibroDevuelto == libro # Nada /\ libro.tipo = "libro"

\* C1: every Book a successful parse returns, from the EPUB parser or from the
\* MOBI parser, has at least one chapter.
C1_AlMenosUnCapitulo ==
    LibroDevuelto => Len(libro.capitulos) >= 1

\* C2: in every Book returned by either parser the chapter at array position k
\* has order k (0-based), so the orders are exactly 0..N-1.
C2_OrdenContiguo ==
    LibroDevuelto =>
        \A k \in 1..Len(libro.capitulos) : libro.capitulos[k].orden = k - 1

\* C3: in every Book returned by either parser no two chapters have the same id.
C3_IdsUnicos ==
    LibroDevuelto =>
        \A j, k \in 1..Len(libro.capitulos) :
            libro.capitulos[j].id = libro.capitulos[k].id => j = k

\* C4: with the mode off, aplicar returns its input markup unchanged, whatever the
\* intensity and the color.
C4_DesactivadoIdentidad ==
    (ultima.tipo = "aplicar" /\ ultima.config.modo = MODOS.DESACTIVADO)
        => ultima.salida = ultima.html

\* aplicar ran with the mode off, a non-default intensity and color, on markup
\* with a word and a raw ampersand, which an active mode would rewrite
C4_Testigo ==
    /\ ultima.tipo = "aplicar"
    /\ ultima.config.modo = MODOS.DESACTIVADO
    /\ ultima.config.intensidad = 15
    /\ ultima.config.color # "inherit"
    /\ ultima.html = <<Texto(<<"l", "e", " ", "&">>)>>
    /\ aplicar(ultima.html, [ultima.config EXCEPT !.modo = MODOS.INICIO]) # ultima.html

\* C5: with a mode value that is none of the recognised modes, aplicar behaves as
\* off: it returns the input markup unchanged.
C5_DesconocidoIdentidad ==
    (ultima.tipo = "aplicar" /\ ultima.config.modo \notin ValoresModo)
        => ultima.salida = ultima.html

\* C6: the intensity a strategy uses during aplicar lies in [0,1] (0..10 tenths),
\* after any sequence of cambiarIntensidad calls and configuration loads.
C6_IntensidadAcotada ==
    (ultima.tipo = "aplicar" /\ estaActivo(ultima.config))
        => (ultima.intensidad >= 0 /\ ultima.intensidad <= 10)

\* The number of characters of the letter class among the first k of a word
LetrasHasta(palabra, k) == Cardinality({j \in 1..k : esLetra(palabra[j])})

\* The piece carries the character c, wrapped or escaped
Lleva(pieza, c) == pieza.clase \in {"b", "texto"} /\ desescapar(pieza.txt) = c

C8_Vocales ==
    (ultima.tipo = "palabra" /\ ultima.config.modo = MODOS.VOCAL
     /\ ultima.config.intensidad = 10)
        => LET p == ultima.palabra
           IN  /\ Len(ultima.salida) = Len(p)
               /\ \A i \in 1..Len(p) :
                    (ultima.salida[i].clase = "b") <=> (p[i] \in VOCALES)

\* C9: decompress is a function of its input bytes alone. A finished call returns
\* what the remembered earlier call on the same bytes returned, whatever records
\* were decompressed in between, and no call alters the remembered call's output.
C9_Pura ==
    (pcPalm = "hecho" /\ previo # Nada /\ previo.datos = datos)
        => resultado = previo.salida

\* An overlapping reference ('a', then distance 1 length 3) decompressed again
\* after an earlier call on the same bytes
C9_Testigo ==
    /\ pcPalm = "hecho"
    /\ previo # Nada
    /\ previo.datos = datos
    /\ datos = <<97, 128, 8>>
    /\ resultado = <<97, 97, 97, 97>>

\* C10: a back-reference with distance d, 1 <= d <= the output length, and
\* length L appends exactly L bytes, each equal to the byte d positions before it
\* in the output, overlapping or not, and leaves the earlier output as it was; so
\* 'ab' followed by (distance 2, length 6) decompresses to 'abababab'.
C10_Referencia ==
    /\ (ultimoPaso.tipo = "referencia"
        /\ ultimoPaso.distancia >= 1
        /\ ultimoPaso.distancia <= Len(ultimoPaso.antes))
        => LET n0 == Len(ultimoPaso.antes)
               d == ultimoPaso.distancia
           IN  /\ Len(resultado) = n0 + ultimoPaso.longitud
               /\ SubSeq(resultado, 1, n0) = ultimoPaso.antes
               /\ \A k \in (n0 + 1)..Len(resultado) : resultado[k] = resultado[k - d]
    /\ (pcPalm = "hecho" /\ datos = <<97, 98, 128, 19>>)
        => resultado = <<97, 98, 97, 98, 97, 98, 97, 98>>

\* A reference whose distance is smaller than its length has been copied
C10_Testigo ==
    /\ ultimoPaso.tipo = "referencia"
    /\ ultimoPaso.distancia >= 1
    /\ ultimoPaso.distancia <= Len(ultimoPaso.antes)
    /\ ultimoPaso.distancia < ultimoPaso.longitud
    /\ Len(resultado) = Len(ultimoPaso.antes) + ultimoPaso.longitud

\* C11: parsing an archive that has no META-INF/container.xml ends with an error
\* and returns no Book.
C11_SinContenedor ==
    (entrada.tipo = "epub" /\ entrada.estructura = "sinContenedor")
        => (libro.tipo = "error" /\ libro.formato = "epub")

\* An archive without container.xml was parsed and the parser's error came back
C11_Testigo ==
    /\ entrada.tipo = "epub"
    /\ entrada.estructura = "sinContenedor"
    /\ libro.tipo = "error"
    /\ libro.mensaje[2] = "Archivo container.xml no encontrado"

\* C13: parsing a binary container whose declared record count puts the end of
\* the record table (78 + 8 x count) past the end of the buffer ends with an error
\* and returns no Book.
C13_TablaFueraDelBuffer ==
    (entrada.tipo = "mobi" /\ entrada.longitud >= 78
     /\ 78 + (8 * entrada.numRegistros) > entrada.longitud)
        => libro.tipo = "error"

\* C14: parsing a binary container whose record table has an entry with an offset
\* smaller than the offset of the entry before it ends with an error, wherever in
\* the table the two entries are.
C14_OffsetsMonotonos ==
    (entrada.tipo = "mobi" /\ leerCabeceraPdb(entrada).tipo = "ok"
     /\ leerRegistros(entrada).tipo = "ok"
     /\ \E i \in 1..(entrada.numRegistros - 1) :
            entrada.offsets[i + 1] < entrada.offsets[i])
        => libro.tipo = "error"

RECURSIVE Pila(_, _)
Pila(pila, segmentos) ==
    IF segmentos = <<>> THEN pila
    ELSE Pila(CASE Head(segmentos) = ".." ->
                       (IF Len(pila) = 0 THEN pila ELSE SubSeq(pila, 1, Len(pila) - 1))
                [] Head(segmentos) = "." -> pila
                [] OTHER -> pila \o <<Head(segmentos)>>,
              Tail(segmentos))

RutaPila(directorio, href) == Pila(SelectSeq(directorio, LAMBDA p : p # ""), href)

\* C12: every href the archive reader resolves, of a spine item or of an image,
\* comes out as the path-stack resolution against the package directory, wherever
\* its '..' and '.' segments are; '../images/cover.jpg' against 'OEBPS/text/'
\* gives 'OEBPS/images/cover.jpg'.
C12_RutaPila ==
    ruta.tipo = "resuelta" =>
        /\ ruta.salida = RutaPila(ruta.directorio, ruta.href)
        /\ (ruta.directorio = <<"OEBPS", "text", "">>
             /\ ruta.href = <<"..", "images", "cover.jpg">>)
                => ruta.salida = <<"OEBPS", "images", "cover.jpg">>

\* The name ends, case-insensitively, with one of the registered extensions
ExtensionRegistrada(nombre) ==
    \E k \in 1..Len(obtenerFormatosSoportados) :
        LET f == obtenerFormatosSoportados[k]
        IN  /\ Len(nombre) >= Len(f)
            /\ toLowerCase(SubSeq(nombre, Len(nombre) - Len(f) + 1, Len(nombre))) = f

\* C15: cargarArchivo on a file whose extension matches no registered parser
\* fails with an error that lists the accepted formats, and at no point of the
\* call have the file's bytes been read or has a parser's analizar been called.
C15_ExtensionRechazada ==
    (carga.tipo = "carga" /\ ~ExtensionRegistrada(carga.archivo.name))
        => /\ carga.fase = "rechazado"
           /\ carga.lecturas = 0
           /\ carga.analisis = 0
           /\ carga.resultado.tipo = "error"
           /\ carga.resultado.mensaje[4] =
                  <<<<".", "e", "p", "u", "b">>, <<".", "m", "o", "b", "i">>,
                    <<".", "a", "z", "w">>, <<".", "a", "z", "w", "3">>>>

\* 'a.epub.txt' was rejected after an upper-case '.EPUB' name had been read and
\* parsed
C15_Testigo ==
    /\ carga.tipo = "carga"
    /\ carga.archivo.name = <<"a", ".", "e", "p", "u", "b", ".", "t", "x", "t">>
    /\ carga.fase = "rechazado"
    /\ carga.lecturas = 0

\* The positions of a sequence whose element satisfies a test, counted
Cuantos(sec, Prueba(_)) == Cardinality({k \in 1..Len(sec) : Prueba(sec[k])})

\* C17: for a Book with chapters c_0..c_(N-1) the exported archive has 'mimetype'
\* as its first entry and, for every i, exactly one chapter document (of c_i's
\* title and content), one manifest item, one spine itemref and one navigation
\* point for c_i; the spine and the navigation map are in the Book's chapter order
\* and navigation point i has playOrder i + 1; the stylesheet is in the manifest.
C17_ArchivoExportado ==
    (exportado.tipo = "exportacion" /\ exportado.salida.tipo = "archivo") =>
        LET a == exportado.salida
            caps == exportado.libro.capitulos
            N == Len(caps)
        IN  /\ a.entradas[1] = <<"mimetype">>
            /\ Len(a.documentos) = N /\ Len(a.opf.spine) = N /\ Len(a.navMap) = N
            /\ Cuantos(a.opf.manifest, LAMBDA it : it.mediaType = "application/xhtml+xml") = N
            /\ Cuantos(a.opf.manifest,
                       LAMBDA it : it.href = "estilos.css" /\ it.mediaType = "text/css") = 1
            /\ \A i \in 0..(N - 1) :
                   LET doc == <<"OEBPS", "capitulo-" \o ToString(i) \o ".xhtml">>
                       href == "capitulo-" \o ToString(i) \o ".xhtml"
                   IN  /\ Cuantos(a.entradas, LAMBDA n : n = doc) = 1
                       /\ a.documentos[i + 1].nombre = doc
                       /\ a.documentos[i + 1].contenido =
                              limpiarParaXhtml(aplicar(caps[i + 1].contenidoHtml,
                                                       exportado.config))
                       /\ Cuantos(a.opf.manifest, LAMBDA it : it.href = href) = 1
                       /\ \E it \in {a.opf.manifest[k] : k \in 1..Len(a.opf.manifest)} :
                              /\ it.href = href
                              /\ a.opf.spine[i + 1] = it.id
                              /\ Cuantos(a.opf.spine, LAMBDA r : r = it.id) = 1
                       /\ Cuantos(a.navMap, LAMBDA p : p.src = href) = 1
                       /\ a.navMap[i + 1].src = href
                       /\ a.navMap[i + 1].playOrder = i + 1
                       /\ a.navMap[i + 1].texto = a.documentos[i + 1].titulo

\* A Book of two chapters with the same id was exported with an active mode
C17_Testigo ==
    /\ exportado.tipo = "exportacion"
    /\ exportado.salida.tipo = "archivo"
    /\ Len(exportado.libro.capitulos) = 2
    /\ exportado.libro.capitulos[1].id = exportado.libro.capitulos[2].id
    /\ estaActivo(exportado.config)
    /\ exportado.salida.navMap[2].playOrder = 2
    /\ exportado.salida.entradas[1] = <<"mimetype">>

\* C18: in prefix-mid mode, for every token of w characters (letters or not),
\* exactly the first floor(w / 2) characters by position are wrapped, for even
\* and for odd w.
C18_InicioMedio ==
    (ultima.tipo = "palabra" /\ ultima.config.modo = MODOS.INICIO_MEDIO)
        => LET w == Len(ultima.palabra)
           IN  /\ Len(ultima.salida) = w
               /\ \A i \in 1..w : (ultima.salida[i].clase = "b") <=> (i <= w \div 2)

\* The boundary letter index (0-based) of syllable mode as stated: the letter
\* before the first consonant that follows a vowel; without one, or with at most
\* 2 letters, min(ceil(n x intensity), n - 1)
LimiteSilaba(letras, intensidad) ==
    LET n == Len(letras)
        tras == {i \in 1..n : /\ letras[i] \notin VOCALES
                              /\ \E j \in 1..(i - 1) : letras[j] \in VOCALES}
    IN  IF n <= 2 \/ tras = {}
        THEN Min(Techo(n, intensidad), n - 1)
        ELSE (CHOOSE i \in tras : \A j \in tras : i <= j) - 2

\* C19: in syllable mode, for every token with a letter, exactly the letters
\* whose letter index is at most the boundary are wrapped, the boundary being the
\* letter before the first consonant after a vowel or, without one or with at
\* most 2 letters, min(ceil(letterCount x intensity), letterCount - 1); every
\* character keeps its position.
C19_Silabas ==
    (ultima.tipo = "palabra" /\ ultima.config.modo = MODOS.SILABAS
     /\ LetrasHasta(ultima.palabra, Len(ultima.palabra)) >= 1)
        => LET p == ultima.palabra
               limite == LimiteSilaba(SelectSeq(p, esLetra), ultima.config.intensidad)
           IN  /\ Len(ultima.salida) = Len(p)
               /\ \A i \in 1..Len(p) :
                    /\ Lleva(ultima.salida[i], p[i])
                    /\ (ultima.salida[i].clase = "b")
                        <=> (esLetra(p[i]) /\ LetrasHasta(p, i) - 1 <= limite)

\* Is the character a consonant letter
esConsonante(c) == esLetra(c) /\ c \notin VOCALES

\* C20: in consonants mode, for every token of w characters, the wrapped
\* characters are exactly the first min(c, ceil(w x intensity)) consonant letters
\* in order of appearance, c being the number of consonant letters; no vowel and
\* no non-letter is wrapped.
C20_Consonantes ==
    (ultima.tipo = "palabra" /\ ultima.config.modo = MODOS.CONSONANTES)
        => LET p == ultima.palabra
               w == Len(p)
               c == Cardinality({j \in 1..w : esConsonante(p[j])})
               tope == Min(c, Techo(w, ultima.config.intensidad))
           IN  /\ Len(ultima.salida) = w
               /\ \A i \in 1..w :
                    (ultima.salida[i].clase = "b")
                        <=> (/\ esConsonante(p[i])
                             /\ Cardinality({j \in 1..i : esConsonante(p[j])}) <= tope)

\* A word of three consonants and a vowel at intensity 0.5: the first two
\* consonants are wrapped, the vowel and the third consonant are not
C20_Testigo ==
    /\ ultima.tipo = "palabra"
    /\ ultima.config.modo = MODOS.CONSONANTES
    /\ ultima.config.intensidad = 5
    /\ ultima.palabra = <<"l", "l", "e", "l">>
    /\ [i \in 1..4 |-> ultima.salida[i].clase] = <<"b", "b", "texto", "texto">>

\* C21: decompress reads the control bytes left to right; a control byte 0x00
\* emits one 0, 0x01-0x08 emits the next n input bytes (those there are, when
\* the input ends inside the run) and consumes them, 0x09-0x7F emits itself,
\* 0xC0-0xFF emits a space and the byte XOR 0x80; the output is what was emitted,
\* in order, empty for empty input; every step moves the cursor forward within
\* the input and every call ends.
C21_Emisiones ==
    /\ [][(pcPalm = "bucle" /\ cursor' # cursor) =>
            LET byte == datos[cursor + 1]
                quedan == Len(datos) - (cursor + 1)
                n == IF byte <= quedan THEN byte ELSE quedan
            IN  /\ cursor' > cursor /\ cursor' <= Len(datos)
                /\ byte = 0 => (resultado' = resultado \o <<0>> /\ cursor' = cursor + 1)
                /\ (byte >= 1 /\ byte <= 8) =>
                       /\ resultado' = resultado \o SubSeq(datos, cursor + 2, cursor + 1 + n)
                       /\ cursor' = cursor + 1 + n
                /\ (byte >= 9 /\ byte <= 127) =>
                       (resultado' = resultado \o <<byte>> /\ cursor' = cursor + 1)
                /\ byte >= 192 =>
                       (resultado' = resultado \o <<32, byte - 128>> /\ cursor' = cursor + 1)]_vars
    /\ []((pcPalm = "hecho" /\ datos = <<>>) => resultado = <<>>)
    /\ [](pcPalm = "bucle" => cursor <= Len(datos))
    /\ ((pcPalm = "bucle") ~> (pcPalm = "hecho"))

\* An input that ends inside a literal run of 2 after a space-coded byte was
\* decompressed to its end
C21_Testigo ==
    /\ pcPalm = "hecho"
    /\ datos = <<200, 0, 2, 97>>
    /\ resultado = <<32, 72, 0, 97>>

\* C22: a back-reference whose source is out of range (distance 0, or distance
\* greater than the output length) raises no error: its positions outside the
\* output emit nothing, the bytes already in the output stay as they are, and
\* decompression goes on with the control byte after the pair.
C22_ReferenciaFueraDeRango ==
    [][(/\ pcPalm = "bucle" /\ cursor' # cursor
        /\ datos[cursor + 1] >= 128 /\ datos[cursor + 1] <= 191
        /\ cursor + 1 < Len(datos)
        /\ LET d == (((datos[cursor + 1] * 256) + datos[cursor + 2]) \div 8) % 2048
           IN  d = 0 \/ d > Len(resultado)) =>
            LET d == (((datos[cursor + 1] * 256) + datos[cursor + 2]) \div 8) % 2048
                largo == (datos[cursor + 2] % 8) + 3
                n0 == Len(resultado)
                fuera == IF d = 0 \/ n0 = 0 THEN largo ELSE Min(largo, d - n0)
            IN  /\ pcPalm' = "bucle"
                /\ cursor' = cursor + 2
                /\ Len(resultado') = n0 + (largo - fuera)
                /\ SubSeq(resultado', 1, n0) = resultado
                /\ \A k \in 1..(largo - fuera) : resultado'[n0 + k] = resultado'[k]]_vars

\* After 'a', a reference of distance 2 and length 6: its first position lies
\* before the output and is skipped, the other five are copied
C22_Testigo ==
    /\ ultimoPaso.tipo = "referencia"
    /\ ultimoPaso.antes = <<97>>
    /\ ultimoPaso.distancia = 2
    /\ ultimoPaso.longitud = 6
    /\ resultado = <<97, 97, 97, 97, 97, 97>>

\* Reading the EXTH block of the file ended in an error: its tag does not
\* match, or something was thrown (a length field below 8, a record or the
\* count past the end of the buffer); nothing else in the file fails the parse
ErrorExth(e) ==
    /\ e.tipo = "mobi"
    /\ e.identificador = "MOBI"
    /\ leerCabeceraPdb(e) = Hecho /\ leerRegistros(e) = Hecho
    /\ registroCero(e) = Hecho /\ leerCabeceraMobi(e) = Hecho
    /\ extraerContenido(e) = Hecho
    /\ (e.exth.identificador # "EXTH" \/ leerExth(e).lanzado)

\* C23: any error while reading the EXTH block is swallowed: the parse still
\* succeeds, and author and language keep their default values.
C23_ExthIgnorado ==
    (entrada # Nada /\ ErrorExth(entrada) /\ libro # Nada) =>
        /\ libro.tipo = "libro"
        /\ libro.autor = "Autor desconocido"
        /\ libro.idioma = "es"

\* The part of C23 the code keeps: the error never fails the parse
C23_ExthNoFalla ==
    (entrada # Nada /\ ErrorExth(entrada) /\ libro # Nada) => libro.tipo = "libro"

\* The positions of the top-level delimiters among the nodes
Delimitadores(nodos) ==
    {k \in 1..Len(nodos) : nodos[k].clase = "elemento" /\ nodos[k].delimitador}

\* The n-th of them in document order
Delimitador(nodos, n) ==
    CHOOSE d \in Delimitadores(nodos) :
        Cardinality({x \in Delimitadores(nodos) : x < d}) = n - 1

\* The last position before the next delimiter after k
FinSegmento(nodos, k) ==
    IF \E d \in Delimitadores(nodos) : d > k
    THEN (CHOOSE d \in Delimitadores(nodos) :
              d > k /\ \A x \in Delimitadores(nodos) : x > k => d <= x) - 1
    ELSE Len(nodos)

\* The chapters the statement describes: the nodes before the first delimiter
\* under 'Inicio' when they are not blank, then one chapter per delimiter that
\* starts with the delimiter node and runs to the node before the next one
SegmentosEsperados(nodos) ==
    LET previos == SubSeq(nodos, 1, FinSegmento(nodos, 0))
        hayPrevios == NoBlanco(previos)
        desplazado == IF hayPrevios THEN 1 ELSE 0
    IN  [j \in 1..(Cardinality(Delimitadores(nodos)) + desplazado) |->
            IF hayPrevios /\ j = 1
            THEN [titulo |-> "Inicio", contenidoHtml |-> previos]
            ELSE LET d == Delimitador(nodos, j - desplazado)
                 IN  [titulo |-> IF nodos[d].texto # "" THEN nodos[d].texto
                                 ELSE "Capitulo " \o ToString(j),
                      contenidoHtml |-> SubSeq(nodos, d, FinSegmento(nodos, d))]]

\* The MOBI parser returned a book whose text was walked by the segmenter
Segmentado ==
    /\ entrada # Nada /\ entrada.tipo = "mobi"
    /\ LibroDevuelto
    /\ NumMarcadores(contenidoMobi(entrada)) > 0

\* C24: the segmenter walks the top-level nodes in order; at each delimiter it
\* emits the accumulated markup, if not blank, as a chapter under the title
\* current before the delimiter, and takes the delimiter's text (or a generated
\* title when blank) as the new title; every visited node is appended to the
\* accumulator, so a delimiter node is the first node of the chapter it titles
\* and the content before the first delimiter is not lost.
C24_Segmentos ==
    Segmentado =>
        LET esperados == SegmentosEsperados(contenidoMobi(entrada))
        IN  /\ Len(libro.capitulos) = Len(esperados)
            /\ \A j \in 1..Len(esperados) :
                   /\ libro.capitulos[j].titulo = esperados[j].titulo
                   /\ libro.capitulos[j].contenidoHtml = esperados[j].contenidoHtml

\* The part of C24 the code keeps: the same for a body of elements and text
C24_SinComentarios ==
    (Segmentado /\ \A k \in 1..Len(entrada.nodos) : entrada.nodos[k].clase # "comentario") =>
        LET esperados == SegmentosEsperados(contenidoMobi(entrada))
        IN  /\ Len(libro.capitulos) = Len(esperados)
            /\ \A j \in 1..Len(esperados) :
                   /\ libro.capitulos[j].titulo = esperados[j].titulo
                   /\ libro.capitulos[j].contenidoHtml = esperados[j].contenidoHtml

\* The tagName of a script, style, code, pre or textarea element, in HTML or in
\* foreign content
TagsExcluidos ==
    {"SCRIPT", "STYLE", "CODE", "PRE", "TEXTAREA", "script", "style", "textarea"}

\* The same, among HTML elements only
TagsExcluidosHtml == {"SCRIPT", "STYLE", "CODE", "PRE", "TEXTAREA"}

\* The outermost elements with a tag of tags among the nodes, in document order
RECURSIVE Subarboles(_, _)
Subarboles(nodos, tags) ==
    IF nodos = <<>> THEN <<>>
    ELSE LET nodo == Head(nodos)
         IN  (IF nodo.clase = "texto" THEN <<>>
              ELSE IF nodo.tag \in tags THEN <<nodo>>
              ELSE Subarboles(nodo.hijos, tags))
             \o Subarboles(Tail(nodos), tags)

\* Some non-blank text node among the nodes lies neither under an element with a
\* tag of tags nor under a span.palabra-bionica
RECURSIVE TextoSuelto(_, _)
TextoSuelto(nodos, tags) ==
    \E k \in 1..Len(nodos) :
        IF nodos[k].clase = "texto"
        THEN \E j \in 1..Len(nodos[k].cs) : ~esEspacio(desescapar(nodos[k].cs[j]))
        ELSE /\ nodos[k].tag \notin tags
             /\ nodos[k].css # "palabra-bionica"
             /\ TextoSuelto(nodos[k].hijos, tags)

\* C25: during aplicar with an active mode, the subtree of every script, style,
\* code, pre or textarea element is left exactly as parsed, at any depth, while
\* every non-blank text node outside such elements is transformed.
C25_ExcluidasIntactas ==
    (ultima.tipo = "aplicar" /\ estaActivo(ultima.config)) =>
        /\ Subarboles(ultima.salida, TagsExcluidos) = Subarboles(ultima.html, TagsExcluidos)
        /\ ~TextoSuelto(ultima.salida, TagsExcluidos)

\* The part of C25 the code keeps: the same for the HTML elements of these tags
C25_ExcluidasHtml ==
    (ultima.tipo = "aplicar" /\ estaActivo(ultima.config)) =>
        /\ Subarboles(ultima.salida, TagsExcluidosHtml)
               = Subarboles(ultima.html, TagsExcluidosHtml)
        /\ ~TextoSuelto(ultima.salida, TagsExcluidosHtml)

\* The text of the nodes, wrappers dropped: the characters of their text nodes in
\* document order
RECURSIVE TextoDe(_)
TextoDe(nodos) ==
    IF nodos = <<>> THEN <<>>
    ELSE (IF Head(nodos).clase = "texto" THEN Head(nodos).cs
          ELSE TextoDe(Head(nodos).hijos))
         \o TextoDe(Tail(nodos))

\* The characters that must not appear raw in markup, with their entities
Entidades ==
    [c \in {"&", "<", ">", "\"", "'"} |->
        CASE c = "&" -> "&amp;" [] c = "<" -> "&lt;" [] c = ">" -> "&gt;"
          [] c = "\"" -> "&quot;" [] OTHER -> "&#039;"]

\* C27: for each of the five strategies, at every intensity and for every token,
\* the markup returned gives back the token exactly once the highlight wrappers
\* are removed and the entities decoded, and each of & < > " ' is emitted as its
\* entity, wrapped or not.
C27_IdaYVuelta ==
    (ultima.tipo = "palabra" /\ ultima.config.modo \in ValoresModo \ {MODOS.DESACTIVADO}) =>
        /\ TextoDe(parsearInnerHtml(ultima.salida)) = ultima.palabra
        /\ Len(ultima.salida) = Len(ultima.palabra)
        /\ \A i \in 1..Len(ultima.palabra) :
               /\ ultima.salida[i].clase \in {"b", "texto"}
               /\ ultima.palabra[i] \in DOMAIN Entidades =>
                      ultima.salida[i].txt = Entidades[ultima.palabra[i]]

\* '<l>' in prefix-mid mode: '<' is wrapped and '>' is not, both as entities
C27_Testigo ==
    /\ ultima.tipo = "palabra"
    /\ ultima.config.modo = MODOS.INICIO_MEDIO
    /\ ultima.palabra = <<"<", "l", ">">>
    /\ ultima.salida[1].clase = "b" /\ ultima.salida[1].txt = "&lt;"
    /\ ultima.salida[3].clase = "texto" /\ ultima.salida[3].txt = "&gt;"

\* C28: after any sequence of cargarLibro, irACapitulo, siguienteCapitulo,
\* anteriorCapitulo and actualizarCapituloActual, the restore of the saved progress
\* in cargarLibro included, capituloActual is an index 0..N-1 of the chapters of
\* the Book loaded (a Book with at least one chapter).
C28_IndiceValido ==
    (visor # Nada /\ Len(visor.libroActual.capitulos) >= 1) =>
        (visor.capituloActual >= 0
         /\ visor.capituloActual < Len(visor.libroActual.capitulos))

\* The part of C28 the code keeps: a step of irACapitulo, siguienteCapitulo,
\* anteriorCapitulo or actualizarCapituloActual leaves the chapter as it was or
\* moves it to an index of the Book
C28_NavegacionAcotada ==
    [][(visor # Nada /\ visor'.libroActual = visor.libroActual
        /\ visor'.capituloActual # visor.capituloActual) =>
           (visor'.capituloActual >= 0
            /\ visor'.capituloActual < Len(visor.libroActual.capitulos))]_vars

Iniciadas ==
    LET todas == {cargas.pendientes[k] : k \in 1..Len(cargas.pendientes)}
                 \cup {[turno |-> t.turno, archivo |-> t.archivo] :
                          t \in {cargas.terminadas[k] : k \in 1..Len(cargas.terminadas)}}
    IN  [n \in 1..iniciadas |-> (CHOOSE c \in todas : c.turno = n).archivo]

\* Two loads were started, the second before the first finished, and both give
\* a Book
DosCargasSolapadas ==
    /\ iniciadas = 2
    /\ \A n \in 1..2 : cargarArchivo(Iniciadas[n]).tipo = "libro"
    /\ \A k \in 1..Len(cargas.terminadas) :
           cargas.terminadas[k].turno = 1 => cargas.terminadas[k].iniciadas = 2

\* While one of two overlapping successful loads is in flight the loading
\* indicator is visible
C29_Indicador ==
    (DosCargasSolapadas /\ cargas.pendientes # <<>>) => pantalla.cargaVisible

\* Once two overlapping successful loads have both finished, the Book shown is
\* the one of the load started last
C29_LibroMostrado ==
    (DosCargasSolapadas /\ cargas.pendientes = <<>>) =>
        (visor # Nada /\ visor.libroActual = cargarArchivo(Iniciadas[2]))

\* C29: when two loads are started one after the other without waiting for the
\* first and both succeed, the Book shown once both have finished is the one of
\* the load started last, whichever finishes first, and the loading indicator
\* stays visible until the last of them has finished.
C29_DosCargas == C29_Indicador /\ C29_LibroMostrado

\* What the code does instead: when no load is in flight the Book shown is the
\* one of the successful load that finished last
C29_GanaLaUltimaTerminada ==
    LET exitos == {k \in 1..Len(cargas.terminadas) :
                      cargarArchivo(cargas.terminadas[k].archivo).tipo = "libro"}
    IN  (cargas.pendientes = <<>> /\ exitos # {}) =>
            (visor # Nada
             /\ visor.libroActual =
                    cargarArchivo(cargas.terminadas[CHOOSE k \in exitos :
                                                       \A j \in exitos : j <= k].archivo))

\* C30: when a load fails (unsupported extension, read error or parse error),
\* the step that ends it leaves the viewer, its Book, its current chapter and
\* the saved progress as they were, shows the error's message and hides the
\* loading indicator.
C30_CargaFallida ==
    [][(/\ Len(cargas'.terminadas) = Len(cargas.terminadas) + 1
        /\ cargarArchivo(cargas'.terminadas[Len(cargas'.terminadas)].archivo).tipo = "error")
       => (/\ visor' = visor
           /\ progreso' = progreso
           /\ pantalla'.errorVisible
           /\ pantalla'.mensajeError =
                  cargarArchivo(cargas'.terminadas[Len(cargas'.terminadas)].archivo).mensaje
           /\ ~pantalla'.cargaVisible)]_vars

\* A Book of three chapters is shown at its second chapter, and the load started
\* after it has failed in the parser: the Book is still there, the error shown
C30_Testigo ==
    /\ Len(cargas.terminadas) = 2
    /\ cargas.terminadas[2].turno = 2
    /\ cargas.terminadas[2].archivo.analisis.tipo = "excepcion"
    /\ visor # Nada
    /\ Len(visor.libroActual.capitulos) = 3
    /\ visor.capituloActual = 1
    /\ pantalla.errorVisible
    /\ pantalla.mensajeError = <<"Error al analizar EPUB: ", <<"Estructura OPF invalida">>>>
    /\ ~pantalla.cargaVisible

=============================================================================
